---- MODULE Spec2Model ----
(***************************************************************************)
(* Lookup-cache-and-reconciliation layer of gigaredPlay:                   *)
(*   ph.py   record cache (TTL + LRU), token, Consulta_Masiva_Datos lookup *)
(*   tv.py   sheet cache (two slots), grid parsing, allocation, marking    *)
(*   main.py api_cliente / api_marcar_registro                             *)
(* Python values are modelled as: str -> TLA+ string (character access by  *)
(* Len/SubSeq), list -> sequence, dict -> function or ordered entry list,  *)
(* None -> the empty tuple where the other case is a 1-tuple (Some).       *)
(* Specifications:                                                         *)
(*   Spec       the request handlers, one request at a time                *)
(*   SpecCache  the cache operations called directly, one at a time        *)
(*   SpecConc   sheet readers and one writer in parallel threads           *)
(*   SpecLock   the cache operations statement by statement under locks    *)
(*   SpecToken  _token statement by statement in parallel threads          *)
(*   SpecPure   single calls of functions on drawn arguments               *)
(*   SpecReconcile  repeated requests while the worksheet is edited        *)
(***************************************************************************)
EXTENDS Integers, Sequences, FiniteSets, TLC

VARIABLES
    now,              \* time.time(), in clock units
    CACHE_TTL,        \* ph.py:29 (environment PH_CACHE_TTL_SECONDS)
    CACHE_MAX,        \* ph.py:30 (environment PH_CACHE_MAX_ENTRIES)
    SHEET_CACHE_TTL,  \* tv.py:18 (environment SHEET_CACHE_TTL_SECONDS)
    _TOKEN,           \* ph.py:38  [value, ts]
    _CACHE,           \* ph.py:40  OrderedDict: sequence of [key, ts, data], oldest first
    _sheet_cache,     \* tv.py:21  dict slot -> [ts, value]
    sheet,            \* the upstream worksheet: the grid get_all_values() returns
    pc,               \* per-thread position (concurrent specifications)
    loc,              \* per-thread locals (concurrent specifications); in
                      \* SpecReconcile, per client, the answer last given
    _CACHE_LOCK,      \* ph.py:39  0 = free, else the holder
    _sheet_cache_lock,\* tv.py:20  0 = free, else the holder
    confirmed,        \* history: rows whose marcar_registro_sheet has returned ok
    touched,          \* history: the stored record-cache keys, least recently touched first
    last              \* history: what the last handler did and returned

vars == <<now, CACHE_TTL, CACHE_MAX, SHEET_CACHE_TTL, _TOKEN, _CACHE, _sheet_cache,
          sheet, pc, loc, _CACHE_LOCK, _sheet_cache_lock, confirmed, touched, last>>

cfgVars == <<CACHE_TTL, CACHE_MAX, SHEET_CACHE_TTL>>
lockVars == <<pc, loc, _CACHE_LOCK, _sheet_cache_lock, confirmed>>
thrVars == <<lockVars, touched>>

(***************************************************************************)
(* Bounds of the model.                                                    *)
(***************************************************************************)
MaxTime == 2        \* the clock runs 0..MaxTime
MaxId == 2          \* identifiers 1..MaxId
MaxRows == 2        \* data rows of the initial worksheet
CacheTtl == 1       \* PH_CACHE_TTL_SECONDS of the caching configuration
CacheMax == 1       \* PH_CACHE_MAX_ENTRIES
SheetTtl == 1       \* SHEET_CACHE_TTL_SECONDS of the caching configuration
LruMax == 2         \* PH_CACHE_MAX_ENTRIES where the cache operations are called directly
MaxReaders == 2     \* concurrent requests that read the worksheet
MaxCallers == 2     \* concurrent callers of the cache operations
MaxAuth == 3        \* authentication calls the upstream answers in one run

(***************************************************************************)
(* Python optionals and small helpers.                                     *)
(***************************************************************************)
None == << >>
Some(v) == <<v>>
Range(s) == {s[i] : i \in 1..Len(s)}
Min(S) == CHOOSE x \in S : \A y \in S : x <= y
Max(S) == CHOOSE x \in S : \A y \in S : x >= y

(***************************************************************************)
(* The world of the model: the worksheet at start, the names the upstream  *)
(* record API holds, and the literals of the source.                       *)
(***************************************************************************)
\* The worksheet at start: row 2 is taken by client 2, the others are free.
HeaderRow == <<"Abonado", "CIC", "Usuario", "Registrado", "Obs", "IDA", "Nombre">>
TakenRow == <<"500", "c2", "u2", "Mail", "", "2", "ANA2 PAZ">>
FreeRow(r) == <<"50" \o ToString(r), "c" \o ToString(r), "u" \o ToString(r), " No", "", "", "">>
InitSheet == <<HeaderRow, TakenRow>> \o [i \in 1..(MaxRows - 1) |-> FreeRow(i + 2)]

\* The two spellings of client id's name upstream, raw and as ph.py cleans them.
RawName(id, nv) == IF nv = 1 THEN "Paz, Ana" \o ToString(id) ELSE "ANA" \o ToString(id) \o " PAZ"
CleanName(id, nv) == IF nv = 1 THEN "Paz Ana" \o ToString(id) ELSE "ANA" \o ToString(id) \o " PAZ"

\* tv.py:146, 158, 166: the candidate column names
AbonadoCandidates == <<"Gigared", "Abonado", "Numero", "Nro Abonado">>
NombreCandidates == <<"Nombre", "Razon Social", "Razon_Social", "Cliente", "Titular">>
UsuarioCandidates == <<"Usuario", "Usuario GP", "Usuario GigaredPlay", "User">>

\* What the write endpoint is called with as the user name.
MarkUsers == {"u3 ", "zz"}

(***************************************************************************)
(* str helpers, character by character.                                    *)
(***************************************************************************)
UPPERCASE == "ABCDEFGHIJKLMNOPQRSTUVWXYZ"
LOWERCASE == "abcdefghijklmnopqrstuvwxyz"
DIGITS == "0123456789"

Char(s, i) == SubSeq(s, i, i)
CharsOf(alphabet) == {Char(alphabet, i) : i \in 1..Len(alphabet)}
IndexIn(c, alphabet) == CHOOSE i \in 1..Len(alphabet) : Char(alphabet, i) = c
UpperChars == CharsOf(UPPERCASE)
LowerChars == CharsOf(LOWERCASE)
DigitChars == CharsOf(DIGITS)
SpaceChars == {" ", "\t", "\n", "\r"}
IsSpace(c) == c \in SpaceChars

ToLower == [c \in UpperChars |-> Char(LOWERCASE, IndexIn(c, UPPERCASE))]
ToUpper == [c \in LowerChars |-> Char(UPPERCASE, IndexIn(c, LOWERCASE))]
lower_char(c) == IF c \in UpperChars THEN ToLower[c] ELSE c
upper_char(c) == IF c \in LowerChars THEN ToUpper[c] ELSE c

\* str.lower, str.upper, str.strip
RECURSIVE lower(_)
lower(s) ==
    IF Len(s) = 0 THEN "" ELSE lower_char(Char(s, 1)) \o lower(SubSeq(s, 2, Len(s)))

RECURSIVE upper(_)
upper(s) ==
    IF Len(s) = 0 THEN "" ELSE upper_char(Char(s, 1)) \o upper(SubSeq(s, 2, Len(s)))

RECURSIVE lstrip(_)
lstrip(s) ==
    IF Len(s) > 0 /\ IsSpace(Char(s, 1)) THEN lstrip(SubSeq(s, 2, Len(s))) ELSE s

RECURSIVE rstrip(_)
rstrip(s) ==
    IF Len(s) > 0 /\ IsSpace(Char(s, Len(s))) THEN rstrip(SubSeq(s, 1, Len(s) - 1)) ELSE s

strip(s) == rstrip(lstrip(s))

startswith(s, prefix) == Len(prefix) <= Len(s) /\ SubSeq(s, 1, Len(prefix)) = prefix

\* unicodedata.normalize("NFD", s) with the Mn marks dropped: NFD splits an
\* accented letter into the plain letter and a combining mark (category Mn),
\* and leaves ASCII as it is.  ACCENTED are the accented letters of the model's
\* strings, PLAIN the letter each one is left with.
ACCENTED == "ÁÉÍÓÚÜÑáéíóúüñ"
PLAIN == "AEIOUUNaeiouun"
AccentedChars == CharsOf(ACCENTED)
Unmarked == [c \in AccentedChars |-> Char(PLAIN, IndexIn(c, ACCENTED))]
unmark_char(c) == IF c \in AccentedChars THEN Unmarked[c] ELSE c

RECURSIVE strip_marks(_)
strip_marks(s) ==
    IF Len(s) = 0 THEN "" ELSE unmark_char(Char(s, 1)) \o strip_marks(SubSeq(s, 2, Len(s)))

\* re.sub(r"[\s_\-]+", "", s): every whitespace, underscore and hyphen is deleted.
RECURSIVE drop_separators(_)
drop_separators(s) ==
    IF Len(s) = 0 THEN ""
    ELSE IF IsSpace(Char(s, 1)) \/ Char(s, 1) \in {"_", "-"}
         THEN drop_separators(SubSeq(s, 2, Len(s)))
         ELSE Char(s, 1) \o drop_separators(SubSeq(s, 2, Len(s)))

\* str.split(): the maximal runs of non-whitespace characters, in order.
RECURSIVE split_ws(_, _)
split_ws(s, cur) ==
    IF Len(s) = 0 THEN (IF cur = "" THEN << >> ELSE <<cur>>)
    ELSE IF IsSpace(Char(s, 1))
         THEN (IF cur = "" THEN << >> ELSE <<cur>>) \o split_ws(SubSeq(s, 2, Len(s)), "")
         ELSE split_ws(SubSeq(s, 2, Len(s)), cur \o Char(s, 1))

RECURSIVE join(_, _)
join(sep, parts) ==
    IF Len(parts) = 0 THEN ""
    ELSE IF Len(parts) = 1 THEN parts[1]
    ELSE parts[1] \o sep \o join(sep, Tail(parts))

\* str.replace(",", " ")
RECURSIVE replace_comma(_)
replace_comma(s) ==
    IF Len(s) = 0 THEN ""
    ELSE (IF Char(s, 1) = "," THEN " " ELSE Char(s, 1)) \o replace_comma(SubSeq(s, 2, Len(s)))

\* re.findall(r"[A-Z0-9]+", s): the maximal runs of upper-case letters and digits.
IsTokenChar(c) == c \in UpperChars \/ c \in DigitChars

RECURSIVE findall_tokens(_, _)
findall_tokens(s, cur) ==
    IF Len(s) = 0 THEN (IF cur = "" THEN << >> ELSE <<cur>>)
    ELSE IF IsTokenChar(Char(s, 1))
         THEN findall_tokens(SubSeq(s, 2, Len(s)), cur \o Char(s, 1))
         ELSE (IF cur = "" THEN << >> ELSE <<cur>>) \o findall_tokens(SubSeq(s, 2, Len(s)), "")

\* collections.Counter(tokens): token -> number of occurrences.
Counter(tokens) ==
    [t \in Range(tokens) |-> Cardinality({i \in 1..Len(tokens) : tokens[i] = t})]

(***************************************************************************)
(* tv.py: normalisation helpers.                                           *)
(***************************************************************************)
_norm(value) == strip(value)

_normkey(value) ==
    IF value = "" THEN "" ELSE drop_separators(lower(strip_marks(value)))

_name_signature(value) ==
    IF value = "" THEN Counter(<< >>)
    ELSE Counter(findall_tokens(upper(strip_marks(value)), ""))

(***************************************************************************)
(* tv.py: the sheet cache (two slots, "matrix" and "records").             *)
(***************************************************************************)
\* copy.deepcopy of a grid or of a record list: a structurally equal value.  No
\* caller of the sheet cache mutates what it stores or returns, so the copy's
\* identity is never observed and values stand for the objects.
deepcopy(value) == value

DictSet(d, key, v) == [k \in DOMAIN d \cup {key} |-> IF k = key THEN v ELSE d[k]]
DictPop(d, key) == [k \in DOMAIN d \ {key} |-> d[k]]
EmptyDict == << >>

\* tv._cache_get: [cache |-> the cache afterwards, ret |-> None or Some(value)]
tv_cache_get(cache, key, t, ttl) ==
    IF ttl <= 0 THEN [cache |-> cache, ret |-> None]
    ELSE IF key \notin DOMAIN cache THEN [cache |-> cache, ret |-> None]
    ELSE IF t - cache[key].ts > ttl THEN [cache |-> DictPop(cache, key), ret |-> None]
    ELSE [cache |-> cache, ret |-> Some(deepcopy(cache[key].value))]

\* the TTL is not looked at
tv_cache_set_always(cache, key, value, t, ttl) ==
    DictSet(cache, key, [ts |-> t, value |-> deepcopy(value)])

\* tv._cache_set: the cache afterwards
tv_cache_set(cache, key, value, t, ttl) ==
    IF ttl <= 0 THEN cache
    ELSE DictSet(cache, key, [ts |-> t, value |-> deepcopy(value)])

\* only the grid slot is dropped
tv_cache_clear_matrix(cache) == DictPop(cache, "matrix")

\* tv._cache_clear: the cache afterwards
tv_cache_clear(cache) == EmptyDict

(***************************************************************************)
(* The worksheet as the gspread client shows it.                           *)
(***************************************************************************)
CellAt(row, idx) == IF idx <= Len(row) THEN row[idx] ELSE ""
SheetWidth(grid) == Max({0} \cup {Len(grid[r]) : r \in 1..Len(grid)})
BlankRow(width) == [j \in 1..width |-> ""]

\* Worksheet.update_cell(row, col, value) as seen by a later get_all_values()
update_cell(grid, row, col, value) ==
    LET width == Max({col, SheetWidth(grid)})
        rows == Max({row, Len(grid)})
    IN [r \in 1..rows |->
          [j \in 1..width |->
             IF r = row /\ j = col THEN value
             ELSE IF r <= Len(grid) THEN CellAt(grid[r], j) ELSE ""]]

\* Worksheet.col_values(col): the column down to its last non-empty cell
col_values(grid, col) ==
    LET filled == {r \in 1..Len(grid) : CellAt(grid[r], col) # ""}
    IN [r \in 1..(IF filled = {} THEN 0 ELSE Max(filled)) |-> CellAt(grid[r], col)]

\* The n-th of the three update_cell calls of tv.py:240-242
mark_cell(grid, target_row, ida, nombre, n) ==
    update_cell(grid, target_row,
                CASE n = 1 -> 4 [] n = 2 -> 6 [] OTHER -> 7,
                CASE n = 1 -> "Mail" [] n = 2 -> ida [] OTHER -> nombre)

\* The grid after the first n of them
RECURSIVE write_cells(_, _, _, _, _)
write_cells(grid, target_row, ida, nombre, n) ==
    IF n = 0 THEN grid
    ELSE mark_cell(write_cells(grid, target_row, ida, nombre, n - 1), target_row, ida, nombre, n)

\* The grids the worksheet of the model goes through: the start, each row
\* partly or wholly marked for the client the write endpoint is called with, and
\* a neighbour's edit of the Registrado cell.  derive_records, match_rows and
\* first_available are computed once for these (the tables below) and cell by
\* cell for any other grid: the tables are a cache, never another function.
MarkClients == {1}
MarkedGrids ==
    {write_cells(InitSheet, r, ToString(client), CleanName(client, 1), n) :
        client \in MarkClients, r \in 2..(MaxRows + 2), n \in 0..3}
KnownGrids ==
    MarkedGrids \cup {update_cell(g, r, 4, v) : g \in MarkedGrids, r \in 2..(MaxRows + 1),
                                                 v \in {"no", "si"}}
KnownNames == {CleanName(id, nv) : id \in 1..MaxId, nv \in 1..2}
memo(table, key, computed) == IF key \in DOMAIN table THEN table[key] ELSE computed

(***************************************************************************)
(* tv.py: from the grid to records.                                        *)
(***************************************************************************)
\* A Python dict with insertion order: keys in first-insertion order, and for
\* each key the value of its last assignment.
mkdict(ks, vs) ==
    [keys |-> SelectSeq([i \in 1..Len(ks) |-> IF \E j \in 1..(i - 1) : ks[j] = ks[i]
                                                THEN None ELSE Some(ks[i])],
                        LAMBDA o : o # None),
     val |-> [k \in Range(ks) |-> vs[Max({i \in 1..Len(ks) : ks[i] = k})]]]
DictKeys(d) == [i \in 1..Len(d.keys) |-> d.keys[i][1]]
DictGet(d, k, default) == IF k \in DOMAIN d.val THEN d.val[k] ELSE default

NonEmptyCells(row) == Cardinality({j \in 1..Len(row) : _norm(row[j]) # ""})
HasCIC(row) == \E j \in 1..Len(row) : upper(_norm(row[j])) = "CIC"

\* tv.py:96: values[:5]
HeaderWindow == 5

\* among rows with as many non-empty cells, the last one is taken
RECURSIVE pick_header_last_tie(_, _, _, _)
pick_header_last_tie(values, idx, best_nonempty, header_index) ==
    IF idx > Len(values) \/ idx > HeaderWindow THEN header_index
    ELSE IF HasCIC(values[idx]) THEN idx
    ELSE IF NonEmptyCells(values[idx]) >= best_nonempty
         THEN pick_header_last_tie(values, idx + 1, NonEmptyCells(values[idx]), idx)
         ELSE pick_header_last_tie(values, idx + 1, best_nonempty, header_index)

\* tv.py:94-103, on 1-based positions: the header row among values[:5]
RECURSIVE pick_header(_, _, _, _)
pick_header(values, idx, best_nonempty, header_index) ==
    IF idx > Len(values) \/ idx > HeaderWindow THEN header_index
    ELSE IF HasCIC(values[idx]) THEN idx
    ELSE IF NonEmptyCells(values[idx]) > best_nonempty
         THEN pick_header(values, idx + 1, NonEmptyCells(values[idx]), idx)
         ELSE pick_header(values, idx + 1, best_nonempty, header_index)

\* tv.py:107-116: the column names; seen maps a raw name to its count
RECURSIVE name_headers(_, _, _)
name_headers(header_raw, j, seen) ==
    IF j > Len(header_raw) THEN << >>
    ELSE LET named(raw) ==
                 IF raw \in DOMAIN seen
                 THEN <<raw \o "_" \o ToString(seen[raw] + 1)>>
                      \o name_headers(header_raw, j + 1, DictSet(seen, raw, seen[raw] + 1))
                 ELSE <<raw>> \o name_headers(header_raw, j + 1, DictSet(seen, raw, 1))
         IN named(IF _norm(header_raw[j]) # "" THEN _norm(header_raw[j])
                  ELSE "col_" \o ToString(j))

\* tv.py:122: one record
make_record(headers, row) ==
    mkdict(headers, [j \in 1..Len(headers) |-> IF j <= Len(row) THEN _norm(row[j]) ELSE ""])

\* tv.py:118-123: one record for each kept row
records_of(headers, kept) == [i \in 1..Len(kept) |-> make_record(headers, kept[i])]

\* the wholly empty rows give records too
records_below_with_blanks(values, header_index) ==
    records_of(name_headers(values[header_index], 1, EmptyDict),
               SubSeq(values, header_index + 1, Len(values)))

\* tv.py:105-123: the rows under the header, the wholly empty ones dropped
records_below(values, header_index) ==
    records_of(name_headers(values[header_index], 1, EmptyDict),
               SelectSeq(SubSeq(values, header_index + 1, Len(values)),
                         LAMBDA row : NonEmptyCells(row) > 0))

\* tv.py:90-123: the records of a grid, cell by cell
derive_scan(values) ==
    IF Len(values) = 0 THEN << >> ELSE records_below(values, pick_header(values, 1, -1, 1))

RecordsTable == [g \in KnownGrids |-> derive_scan(g)]
derive_records(values) == memo(RecordsTable, values, derive_scan(values))

\* tv.py:118-125: [cache, exc, ret, reads]
load_records(cache, records, reads, t, ttl) ==
    [cache |-> tv_cache_set(cache, "records", records, t, ttl),
     exc |-> FALSE, ret |-> records, reads |-> reads]

\* tv.py:90-125: values is the grid in hand
load_values(cache, values, reads, t, ttl) ==
    IF Len(values) = 0 THEN [cache |-> cache, exc |-> FALSE, ret |-> << >>, reads |-> reads]
    ELSE load_records(cache, derive_records(values), reads, t, ttl)

\* tv.py:85-125: got is what the matrix slot answered
load_after_get(got, grid, up, t, ttl) ==
    IF got.ret = None /\ ~up
    THEN [cache |-> got.cache, exc |-> TRUE, ret |-> << >>, reads |-> 0]
    ELSE load_values(IF got.ret = None THEN tv_cache_set(got.cache, "matrix", grid, t, ttl)
                     ELSE got.cache,
                     IF got.ret = None THEN grid ELSE got.ret[1],
                     IF got.ret = None THEN 1 ELSE 0, t, ttl)

\* the worksheet is read at every call
load_data_from_sheet_refreshing(cache, grid, up, force_refresh, t, ttl) ==
    load_after_get([cache |-> cache, ret |-> None], grid, up, t, ttl)

\* tv.load_data_from_sheet.  grid is what get_all_values() returns now and up is
\* whether the upstream read succeeds (it raises otherwise).
\* [cache, exc, ret, reads]: reads counts the upstream reads made.
load_data_from_sheet(cache, grid, up, force_refresh, t, ttl) ==
    load_after_get(IF force_refresh THEN [cache |-> cache, ret |-> None]
                   ELSE tv_cache_get(cache, "matrix", t, ttl),
                   grid, up, t, ttl)

\* tv.py:138-142: the first candidate that equals a normalised key, else the
\* first candidate that a normalised key starts with
pick_key(normalised, nkeys, desired, exact, prefix) ==
    IF exact # {} THEN Some(normalised.val[desired[Min(exact)]])
    ELSE IF prefix # {}
    THEN Some(normalised.val[nkeys[Min({k \in 1..Len(nkeys) :
                                          startswith(nkeys[k], desired[Min(prefix)])})]])
    ELSE None

\* tv.py:134-142
find_among(normalised, nkeys, desired) ==
    pick_key(normalised, nkeys, desired,
             {i \in 1..Len(desired) : desired[i] \in DOMAIN normalised.val},
             {i \in 1..Len(desired) : \E k \in 1..Len(nkeys) : startswith(nkeys[k], desired[i])})

\* tv.py:134: {_normkey(k): k for k in row.keys()}
normalised_keys(real) == mkdict([i \in 1..Len(real) |-> _normkey(real[i])], real)

find_in(normalised, candidates) ==
    find_among(normalised, DictKeys(normalised),
               [i \in 1..Len(candidates) |-> _normkey(candidates[i])])

\* tv._find_key: None or Some(the record's real key)
_find_key(row, candidates) ==
    IF Len(row.keys) = 0 THEN None ELSE find_in(normalised_keys(DictKeys(row)), candidates)

\* str(row.get(key, "")).strip() if key else ""
cell_of(row, key) == IF key = None THEN "" ELSE strip(DictGet(row, key[1], ""))

_get_abonado_num(row) == cell_of(row, _find_key(row, AbonadoCandidates))

\* tv.py:160-162
name_matches(row, key_nombre, signature_query) ==
    key_nombre # None /\ _name_signature(DictGet(row, key_nombre[1], "")) = signature_query

MatchRow(row, signature_query) ==
    name_matches(row, _find_key(row, NombreCandidates), signature_query)

\* tv.py:163-168: the match built from the row
match_of(row) ==
    [abonado |-> _get_abonado_num(row),
     row |-> row,
     cic |-> cell_of(row, _find_key(row, <<"CIC">>)),
     usuario |-> cell_of(row, _find_key(row, UsuarioCandidates))]

match_at(rows, hits) == IF hits = {} THEN None ELSE Some(match_of(rows[Min(hits)]))

match_with(rows, signature_query) ==
    match_at(rows, {i \in 1..Len(rows) : MatchRow(rows[i], signature_query)})

\* tv.py:157-169 on the loaded rows, cell by cell: None or Some(match)
match_scan(rows, nombre_busqueda) == match_with(rows, _name_signature(nombre_busqueda))

MatchTable ==
    [rows \in {derive_scan(g) : g \in KnownGrids}, nombre \in KnownNames |->
       match_scan(rows, nombre)]
match_rows(rows, nombre_busqueda) ==
    memo(MatchTable, <<rows, nombre_busqueda>>, match_scan(rows, nombre_busqueda))

\* tv.py:153-169: loaded is what load_data_from_sheet answered
match_loaded(loaded, nombre_busqueda) ==
    IF loaded.exc THEN [cache |-> loaded.cache, exc |-> TRUE, ret |-> None, reads |-> 0]
    ELSE [cache |-> loaded.cache, exc |-> FALSE,
          ret |-> match_rows(loaded.ret, nombre_busqueda), reads |-> loaded.reads]

\* tv.encontrar_abonado_por_nombre: [cache, exc, ret, reads]
encontrar_abonado_por_nombre(cache, grid, up, nombre_busqueda, t, ttl) ==
    match_loaded(load_data_from_sheet(cache, grid, up, FALSE, t, ttl), nombre_busqueda)

\* tv.py:186-192, on 1-based positions: 0 where the source returns -1
find_col(keys, target) ==
    LET exact == {i \in 1..Len(keys) : keys[i] = target}
        prefix == {i \in 1..Len(keys) : startswith(keys[i], target)}
    IN IF exact # {} THEN Min(exact) ELSE IF prefix # {} THEN Min(prefix) ELSE 0

\* tv.py:184-192
find_col_idx(headers, name) ==
    find_col([i \in 1..Len(headers) |-> _normkey(headers[i])], _normkey(name))

\* a free row counts even when it names neither a user nor a key
IsAvailable_unfilled(values, r, idx_cic, idx_user, idx_reg) ==
    lower(strip(CellAt(values[r], idx_reg))) \in {"no", "n", "false", "0"}

\* tv.py:203-207
IsAvailable(values, r, idx_cic, idx_user, idx_reg) ==
    /\ lower(strip(CellAt(values[r], idx_reg))) \in {"no", "n", "false", "0"}
    /\ (strip(CellAt(values[r], idx_user)) # "" \/ strip(CellAt(values[r], idx_cic)) # "")

\* tv.py:208: the first available row
first_free(values, idx_cic, idx_user, free) ==
    IF free = {} THEN None
    ELSE Some([usuario |-> strip(CellAt(values[Min(free)], idx_user)),
               cic |-> strip(CellAt(values[Min(free)], idx_cic)),
               row_index |-> Min(free)])

\* tv.py:198-209
available_in(values, idx_cic, idx_user, idx_reg) ==
    IF idx_cic < 1 \/ idx_user < 1 \/ idx_reg < 1 THEN None
    ELSE first_free(values, idx_cic, idx_user,
                    {r \in 2..Len(values) : IsAvailable(values, r, idx_cic, idx_user, idx_reg)})

\* tv.py:179-209 on the grid, cell by cell: None or Some([usuario, cic, row_index])
available_scan(values) ==
    IF Len(values) < 2 THEN None
    ELSE available_in(values, find_col_idx(values[1], "CIC"), find_col_idx(values[1], "Usuario"),
                      find_col_idx(values[1], "Registrado"))

AvailableTable == [g \in KnownGrids |-> available_scan(g)]
first_available(values) == memo(AvailableTable, values, available_scan(values))

\* tv.py:174-209: got is what the matrix slot answered
available_after_get(got, grid, up, t, ttl) ==
    IF got.ret = None /\ ~up
    THEN [cache |-> got.cache, exc |-> TRUE, ret |-> None, reads |-> 0]
    ELSE [cache |-> IF got.ret = None THEN tv_cache_set(got.cache, "matrix", grid, t, ttl)
                    ELSE got.cache,
          exc |-> FALSE,
          ret |-> first_available(IF got.ret = None THEN grid ELSE got.ret[1]),
          reads |-> IF got.ret = None THEN 1 ELSE 0]

\* tv.obtener_usuario_cic_disponible: [cache, exc, ret, reads]
obtener_usuario_cic_disponible(cache, grid, up, t, ttl) ==
    available_after_get(tv_cache_get(cache, "matrix", t, ttl), grid, up, t, ttl)

(***************************************************************************)
(* ph.py: the record cache.  Inside a handler the cache entries and the    *)
(* handler's locals refer to dict objects of a heap (a sequence; a ref is  *)
(* an index), so that dict(x) builds a new object and an assignment        *)
(* through one reference is seen through every alias.  m = [cache, heap].  *)
(***************************************************************************)
\* dict(value) left out: the same object is handed on
dict_alias(m, ref) == [m |-> m, ref |-> ref]

\* dict(value): a new dict object with the same items.  [m, ref]
dict(m, ref) ==
    [m |-> [m EXCEPT !.heap = Append(@, m.heap[ref])], ref |-> Len(m.heap) + 1]

HasKey(cache, key) == \E i \in 1..Len(cache) : cache[i].key = key
IndexOfKey(cache, key) == CHOOSE i \in 1..Len(cache) : cache[i].key = key

\* an entry as old as the TTL is purged too
_purge_expired_eager(cache, t, ttl) ==
    IF ttl <= 0 THEN << >>
    ELSE SelectSeq(cache, LAMBDA e : ~(t - e.ts >= ttl))

\* ph._purge_expired on the OrderedDict
_purge_expired(cache, t, ttl) ==
    IF ttl <= 0 THEN << >>
    ELSE SelectSeq(cache, LAMBDA e : ~(t - e.ts > ttl))

\* OrderedDict.move_to_end(key)
move_to_end(cache, key) ==
    SelectSeq(cache, LAMBDA e : e.key # key) \o <<cache[IndexOfKey(cache, key)]>>

\* OrderedDict.__setitem__: an existing key keeps its place, a new one goes last
setitem(cache, key, entry) ==
    IF HasKey(cache, key)
    THEN [i \in 1..Len(cache) |-> IF cache[i].key = key THEN entry ELSE cache[i]]
    ELSE Append(cache, entry)

\* ph.py:82-83: while len(_CACHE) > CACHE_MAX > 0: _CACHE.popitem(last=False)
RECURSIVE evict(_, _)
evict(cache, max) ==
    IF Len(cache) > max /\ max > 0 THEN evict(Tail(cache), max) ELSE cache

\* ph.py:70-71: the entry moved last is handed out as a copy
hand_out(m, moved) == dict([m EXCEPT !.cache = moved], moved[Len(moved)].data)

\* a hit leaves the entry where it is
get_purged_unmoved(m, purged, key) ==
    IF ~HasKey(purged, key) THEN [m |-> [m EXCEPT !.cache = purged], ref |-> 0]
    ELSE dict([m EXCEPT !.cache = purged], purged[IndexOfKey(purged, key)].data)

\* ph.py:66-71 on the purged cache
get_purged(m, purged, key) ==
    IF ~HasKey(purged, key) THEN [m |-> [m EXCEPT !.cache = purged], ref |-> 0]
    ELSE hand_out(m, move_to_end(purged, key))

\* a hit stamps the entry with the time of the read
restamped(cache, key, t) ==
    [i \in 1..Len(cache) |-> IF cache[i].key = key THEN [cache[i] EXCEPT !.ts = t] ELSE cache[i]]

ph_cache_get_refreshing(m, key, t, ttl) ==
    IF ttl <= 0 \/ ~HasKey(_purge_expired(m.cache, t, ttl), key)
    THEN [m |-> [m EXCEPT !.cache = _purge_expired(@, t, ttl)], ref |-> 0]
    ELSE hand_out(m, restamped(move_to_end(_purge_expired(m.cache, t, ttl), key), key, t))

\* ph._cache_get: [m, ref]; ref is 0 (None) or the reference of the copy handed out
ph_cache_get(m, key, t, ttl) ==
    IF ttl <= 0 THEN [m |-> m, ref |-> 0]
    ELSE get_purged(m, _purge_expired(m.cache, t, ttl), key)

\* ph.py:80-83: copy is the dict(value) just made, on the purged cache
store(copy, key, t, max) ==
    [copy.m EXCEPT !.cache =
        evict(move_to_end(setitem(@, key, [key |-> key, ts |-> t, data |-> copy.ref]), key),
              max)]

\* ph._cache_set: m afterwards
ph_cache_set(m, key, value, t, ttl, max) ==
    IF ttl <= 0 THEN m
    ELSE store(dict([m EXCEPT !.cache = _purge_expired(@, t, ttl)], value), key, t, max)

\* The heap of a handler that starts with the cache in state `cache`, and the
\* cache as it stands when the handler has returned.
OpenHeap(cache) ==
    [cache |-> [i \in 1..Len(cache) |-> [cache[i] EXCEPT !.data = i]],
     heap |-> [i \in 1..Len(cache) |-> cache[i].data]]
CloseHeap(m) == [i \in 1..Len(m.cache) |-> [m.cache[i] EXCEPT !.data = m.heap[@]]]

(***************************************************************************)
(* ph.py: token and upstream lookup.  The upstream API is external: `api`  *)
(* is how it behaves during one call, drawn by the caller.                 *)
(*   auth    "ok" | "fail" (HTTP error) | "empty" (no token in the answer) *)
(*   shape   the request shape it understands, 1..4, or 0 for none         *)
(*   variant the first transport variant it answers with HTTP 200 and a    *)
(*           JSON body, 1..3, or 4 when none is                            *)
(*   garbled the variants it answers with HTTP 200 and a body that is not  *)
(*           JSON (only those before `variant` are ever sent)              *)
(*   body    what it returns for the understood shape                      *)
(*   wrong   what it returns for any other shape                           *)
(*   nv      which spelling of the client's name it holds                  *)
(***************************************************************************)
TOKEN_MAX_AGE == 12 * 60

\* a token of exactly the maximal age is still served
_token_inclusive(tok, t, api) ==
    IF tok.value # "" /\ t - tok.ts <= TOKEN_MAX_AGE
    THEN [tok |-> tok, exc |-> FALSE, ret |-> tok.value, calls |-> 0]
    ELSE IF api.auth # "ok"
    THEN [tok |-> tok, exc |-> TRUE, ret |-> "", calls |-> 1]
    ELSE [tok |-> [value |-> "tk", ts |-> t], exc |-> FALSE, ret |-> "tk", calls |-> 1]

\* ph._token: [tok, exc, ret, calls]
_token(tok, t, api) ==
    IF tok.value # "" /\ t - tok.ts < TOKEN_MAX_AGE
    THEN [tok |-> tok, exc |-> FALSE, ret |-> tok.value, calls |-> 0]
    ELSE IF api.auth # "ok"
    THEN [tok |-> tok, exc |-> TRUE, ret |-> "", calls |-> 1]
    ELSE [tok |-> [value |-> "tk", ts |-> t], exc |-> FALSE, ret |-> "tk", calls |-> 1]

\* The upstream's records.
UpstreamRecord(id, nv) ==
    IF nv = 1
    THEN [ID |-> ToString(id), RS |-> RawName(id, 1), Documento |-> "30" \o ToString(id),
          Estado |-> "Activo"]
    ELSE [IDA |-> ToString(id), Apellido |-> "ANA" \o ToString(id), Nombre |-> " PAZ",
          CUIT |-> "30" \o ToString(id), estado |-> "suspendido "]
OtherId(id) == (id % MaxId) + 1

\* A JSON answer: [kind |-> "list", items] or [kind |-> "dict", lists, scalars]
JsonList(items) == [kind |-> "list", items |-> items]
JsonDict(lists, scalars) == [kind |-> "dict", lists |-> lists, scalars |-> scalars]
UpstreamBody(api, shape, id) ==
    IF shape # api.shape
    THEN (IF api.wrong = "empty" THEN JsonDict(EmptyDict, EmptyDict)
          ELSE JsonDict(EmptyDict, [code |-> "400"]))
    ELSE CASE api.body = "list" ->
                JsonList(<<UpstreamRecord(OtherId(id), api.nv), UpstreamRecord(id, api.nv)>>)
           [] api.body = "other" -> JsonList(<<UpstreamRecord(OtherId(id), api.nv)>>)
           [] api.body = "wrapped" ->
                JsonDict([data |-> <<UpstreamRecord(id, api.nv)>>], [code |-> "200"])
           [] api.body = "self" -> JsonDict(EmptyDict, UpstreamRecord(id, api.nv))
           [] api.body = "coderr" ->
                JsonDict([data |-> <<UpstreamRecord(id, api.nv)>>], [code |-> "500"])
           [] OTHER -> JsonList(<< >>)

\* ph.py:122-128: how the n-th attempt of a payload ends.  "json": HTTP 200 with a
\* body that _json parses; "garbled": HTTP 200 with a body on which _json raises;
\* "down": another status, or the request raises.
attempt(api, n) ==
    IF n = api.variant THEN "json" ELSE IF n \in api.garbled THEN "garbled" ELSE "down"

\* ph._req_masiva: [data |-> None or Some(json), sent |-> the requests made]
_req_masiva(api, shape, id) ==
    [data |-> IF api.variant <= 3 THEN Some(UpstreamBody(api, shape, id)) ELSE None,
     sent |-> [n \in 1..Min({api.variant, 3}) |->
                 [shape |-> shape, variant |-> n, answer |-> attempt(api, n)]]]

RecordKeys == <<"abonados", "Abonados", "data", "Data", "rows", "items", "result">>

RECURSIVE concat_lists(_, _)
concat_lists(lists, i) ==
    IF i > Len(RecordKeys) THEN << >>
    ELSE (IF RecordKeys[i] \in DOMAIN lists THEN lists[RecordKeys[i]] ELSE << >>)
         \o concat_lists(lists, i + 1)

\* ph._iter_records
_iter_records(data) ==
    IF data.kind = "list" THEN data.items
    ELSE concat_lists(data.lists, 1)
         \o (IF DOMAIN data.scalars # {} THEN <<data.scalars>> ELSE << >>)

\* A JSON object is the function from its keys to its values, a number held by
\* its decimal text (what str() makes of it) and the keys of the values that are
\* numbers listed under "numbers".
Get(rec, k) == IF k \in DOMAIN rec THEN rec[k] ELSE ""
Numbers(rec) == IF "numbers" \in DOMAIN rec THEN rec["numbers"] ELSE {}

\* bool(rec.get(k)): absent, "" and the number 0 are false
Truthy(rec, k) ==
    /\ k \in DOMAIN rec
    /\ rec[k] # ""
    /\ ~(k \in Numbers(rec) /\ rec[k] = "0")

\* str(rec.get(a) or rec.get(b) or "")
GetOr(rec, a, b) ==
    IF Truthy(rec, a) THEN rec[a] ELSE IF Truthy(rec, b) THEN rec[b] ELSE ""

Falsy(data) ==
    IF data.kind = "list" THEN Len(data.items) = 0
    ELSE DOMAIN data.lists = {} /\ DOMAIN data.scalars = {}
CodeRejects(data) ==
    /\ data.kind = "dict"
    /\ "code" \in DOMAIN data.scalars
    /\ data.scalars["code"] \notin {"200", "OK"}

\* ph.py:163-169: the record of the identifier, else the first record
choose_record(recs, id) ==
    LET own == {i \in 1..Len(recs) : GetOr(recs[i], "ID", "IDA") = ToString(id)}
    IN IF own # {} THEN Some(recs[Min(own)])
       ELSE IF Len(recs) > 0 THEN Some(recs[1])
       ELSE None

\* ph.py:159-169 for one payload: None or Some(record)
select_record(data, id) ==
    IF data = None THEN None
    ELSE IF Falsy(data[1]) \/ CodeRejects(data[1]) THEN None
    ELSE choose_record(_iter_records(data[1]), id)

\* ph.py:158-170: the loop over the payloads, from shape on; log lists the
\* requests made so far
RECURSIVE try_shapes(_, _, _, _)
try_shapes(api, shape, id, log) ==
    IF shape > 4 THEN [ret |-> None, log |-> log]
    ELSE LET selected(got, rec) ==
                 IF rec # None THEN [ret |-> rec, log |-> log \o got.sent]
                 ELSE try_shapes(api, shape + 1, id, log \o got.sent)
             tried(got) == selected(got, select_record(got.data, id))
         IN tried(_req_masiva(api, shape, id))

\* ph.py:150-170 with the token in hand
query_with(token, found) ==
    [tok |-> token.tok, exc |-> FALSE, ret |-> found.ret, auth_calls |-> token.calls,
     requests |-> Len(found.log), log |-> found.log]

authenticated(token, id, api) ==
    IF token.exc
    THEN [tok |-> token.tok, exc |-> TRUE, ret |-> None, auth_calls |-> token.calls,
          requests |-> 0, log |-> << >>]
    ELSE query_with(token, try_shapes(api, 1, id, << >>))

\* ph.consulta_masiva_por_id: [tok, exc, ret, auth_calls, requests, log]
consulta_masiva_por_id(tok, id, t, api) == authenticated(_token(tok, t, api), id, api)

_normalize_text(value) == upper(strip_marks(value))

estado_of(normalized) ==
    IF startswith(normalized, "ACT") THEN "activo"
    ELSE IF startswith(normalized, "SUS") THEN "suspendido"
    ELSE IF startswith(normalized, "BAJ") THEN "baja"
    ELSE "desconocido"
_estado_code(value) == estado_of(_normalize_text(value))

Initials(words) == [i \in 1..Len(words) |-> SubSeq(words[i], 1, 1)]

\* ph.py:236-250 with the cleaned name, the document and the state text in hand
transformed(record, nombre_limpio, dni, estado_txt) ==
    [ID |-> GetOr(record, "ID", "IDA"),
     Nombre |-> nombre_limpio,
     DNI |-> dni,
     Contrasena |-> strip(lower(join("", Initials(split_ws(nombre_limpio, "")))) \o dni),
     Estado |-> estado_txt,
     EstadoCode |-> _estado_code(estado_txt),
     _via |-> "masiva"]

\* ph.transformar_desde_masiva, field by field.  Mail and the three product flags
\* are left out: they are further projections of the record that no cache or
\* sheet operation reads.
transformar_scan(record) ==
    transformed(record,
                join(" ", split_ws(replace_comma(
                    IF Get(record, "RS") # "" THEN Get(record, "RS")
                    ELSE Get(record, "Apellido") \o " " \o Get(record, "Nombre")), "")),
                GetOr(record, "Documento", "CUIT"),
                strip(GetOr(record, "Estado", "estado")))

TransformTable ==
    [record \in {UpstreamRecord(id, nv) : id \in 1..MaxId, nv \in 1..2} |->
       transformar_scan(record)]
transformar_desde_masiva(record) == memo(TransformTable, record, transformar_scan(record))

\* a lookup without a record is cached as an empty record
fetched_record_negative(m, looked, key, t, ttl, max) ==
    IF looked.exc \/ looked.ret = None
    THEN [m |-> ph_cache_set([m EXCEPT !.heap = Append(@, EmptyDict)],
                             key, Len(m.heap) + 1, t, ttl, max),
          tok |-> looked.tok, exc |-> TRUE, ret |-> 0, hit |-> FALSE,
          auth_calls |-> looked.auth_calls, requests |-> looked.requests]
    ELSE [m |-> ph_cache_set([m EXCEPT !.heap = Append(@, transformar_desde_masiva(looked.ret[1]))],
                             key, Len(m.heap) + 1, t, ttl, max),
          tok |-> looked.tok, exc |-> FALSE, ret |-> Len(m.heap) + 1, hit |-> FALSE,
          auth_calls |-> looked.auth_calls, requests |-> looked.requests]

\* ph.py:259-264: looked is what consulta_masiva_por_id answered
fetched_record(m, looked, key, t, ttl, max) ==
    IF looked.exc \/ looked.ret = None
    THEN [m |-> m, tok |-> looked.tok, exc |-> TRUE, ret |-> 0, hit |-> FALSE,
          auth_calls |-> looked.auth_calls, requests |-> looked.requests]
    ELSE [m |-> ph_cache_set([m EXCEPT !.heap = Append(@, transformar_desde_masiva(looked.ret[1]))],
                             key, Len(m.heap) + 1, t, ttl, max),
          tok |-> looked.tok, exc |-> FALSE, ret |-> Len(m.heap) + 1, hit |-> FALSE,
          auth_calls |-> looked.auth_calls, requests |-> looked.requests]

\* ph.py:256-264: cached is what _cache_get answered
looked_up(cached, tok, id, t, ttl, max, api) ==
    IF cached.ref # 0
    THEN [m |-> cached.m, tok |-> tok, exc |-> FALSE, ret |-> cached.ref, hit |-> TRUE,
          auth_calls |-> 0, requests |-> 0]
    ELSE fetched_record(cached.m, consulta_masiva_por_id(tok, id, t, api), ToString(id),
                        t, ttl, max)

\* ph.consultar_y_transformar_masiva.
\* [m, tok, exc, ret, hit, auth_calls, requests]; ret is the ref of the dict returned
consultar_y_transformar_masiva(m, tok, id, t, ttl, max, api) ==
    looked_up(ph_cache_get(m, ToString(id), t, ttl), tok, id, t, ttl, max, api)

(***************************************************************************)
(* tv.py: marking a row.  The worksheet is external: update_cell writes    *)
(* one cell of the upstream grid (growing it when needed) and `fail_at`,   *)
(* drawn by the caller, is the upstream call that raises: 0 none, 1 the    *)
(* opening or col_values, 2..4 the three update_cell, 5 format.            *)
(***************************************************************************)
\* the header cell is compared too
find_usuario_from_header(col_usuario, usuario) ==
    LET found == {idx \in 1..Len(col_usuario) : strip(col_usuario[idx]) = strip(usuario)}
    IN IF found = {} THEN 0 ELSE Min(found)

\* tv.py:229-233: the first row from 2 on whose Usuario cell is the user's
find_usuario(col_usuario, usuario) ==
    LET found == {idx \in 2..Len(col_usuario) : strip(col_usuario[idx]) = strip(usuario)}
    IN IF found = {} THEN 0 ELSE Min(found)

\* tv.py:224-235: 0 where the source leaves target_row None
target_of(grid, usuario, row_index) ==
    IF row_index >= 2 THEN row_index ELSE find_usuario(col_values(grid, 3), usuario)

\* tv.py:222-248 with the target row in hand
mark_row(cache, grid, target_row, ida, nombre, fail_at) ==
    IF fail_at = 1 \/ target_row = 0
    THEN [cache |-> cache, grid |-> grid, exc |-> TRUE, row |-> 0]
    ELSE IF fail_at \in 2..5
    THEN [cache |-> cache, grid |-> write_cells(grid, target_row, ida, nombre, fail_at - 2),
          exc |-> TRUE, row |-> target_row]
    ELSE [cache |-> tv_cache_clear(cache),
          grid |-> write_cells(grid, target_row, ida, nombre, 3),
          exc |-> FALSE, row |-> target_row]

\* tv.marcar_registro_sheet: [cache, grid, exc, row]; row_index 0 stands for None
\* (an absent and a zero row_index take the same branch of tv.py:225)
marcar_registro_sheet(cache, grid, usuario, ida, nombre, row_index, fail_at) ==
    mark_row(cache, grid, target_of(grid, usuario, row_index), ida, nombre, fail_at)

(***************************************************************************)
(* main.py: api_cliente, on the state of the process.                      *)
(***************************************************************************)
\* data[key] = value through the reference ref, for each <<key, value>> in turn
RECURSIVE SetItems(_, _, _)
SetItems(m, ref, items) ==
    IF Len(items) = 0 THEN m
    ELSE SetItems([m EXCEPT !.heap[ref] = DictSet(@, items[1][1], items[1][2])], ref,
                  Tail(items))

\* (match or {}).get(key, "")
match_get(match, key) == IF match = None THEN "" ELSE match[1][key]

\* main.py:208-216
enrich_match(m, ref, match) ==
    SetItems(m, ref, << <<"ya_tiene_usuario", match # None>>,
                        <<"abonado_sheet", match_get(match, "abonado")>>,
                        <<"usuario_sheet", match_get(match, "usuario")>>,
                        <<"cic_sheet", match_get(match, "cic")>>,
                        <<"AltaURL", "">>,
                        <<"UsuarioPropuesto", "">>,
                        <<"CICPropuesto", "">> >>)

\* main.py:220-223
enrich_proposal(m, ref, disp) ==
    IF disp = None THEN m
    ELSE SetItems(m, ref, << <<"UsuarioPropuesto", disp[1].usuario>>,
                             <<"CICPropuesto", disp[1].cic>>,
                             <<"fila_propuesta", disp[1].row_index>> >>)

\* the proposal is fetched whatever the match
asks_always(match) == TRUE

\* main.py:217: whether obtener_usuario_cic_disponible is called
asks_proposal(match) == match = None

\* main.py:227: the response, m being the heap when the handler returns
cliente_response(got, found, avail, asked, m) ==
    [cache |-> CloseHeap(m), tok |-> got.tok, sheet_cache |-> avail.cache,
     status |-> 200, data |-> m.heap[got.ret], fetched |-> got.m.heap[got.ret],
     hit |-> got.hit, auth_calls |-> got.auth_calls, requests |-> got.requests,
     reads |-> found.reads + avail.reads, asked |-> asked,
     failed |-> [record |-> FALSE, match |-> found.exc, proposal |-> avail.exc]]

\* main.py:217-225: avail is what obtener_usuario_cic_disponible answered
cliente_proposed(got, found, avail, asked, m) ==
    cliente_response(got, found, avail, asked,
                     IF avail.exc THEN m ELSE enrich_proposal(m, got.ret, avail.ret))

\* main.py:208-225 with the match in hand
cliente_matched(got, found, match, up2) ==
    cliente_proposed(got, found,
                     IF asks_proposal(match)
                     THEN obtener_usuario_cic_disponible(found.cache, sheet, up2, now,
                                                         SHEET_CACHE_TTL)
                     ELSE [cache |-> found.cache, exc |-> FALSE, ret |-> None, reads |-> 0],
                     asks_proposal(match),
                     enrich_match(got.m, got.ret, match))

\* a name match that raises fails the request
cliente_found_strict(got, found, up2) ==
    IF found.exc
    THEN [cache |-> CloseHeap(got.m), tok |-> got.tok, sheet_cache |-> found.cache,
          status |-> 500, data |-> EmptyDict, fetched |-> got.m.heap[got.ret],
          hit |-> got.hit, auth_calls |-> got.auth_calls, requests |-> got.requests,
          reads |-> 0, asked |-> FALSE,
          failed |-> [record |-> FALSE, match |-> TRUE, proposal |-> FALSE]]
    ELSE cliente_matched(got, found, found.ret, up2)

\* main.py:201-206: found is what encontrar_abonado_por_nombre answered
cliente_found(got, found, up2) ==
    cliente_matched(got, found, IF found.exc THEN None ELSE found.ret, up2)

\* main.py:198-230: got is what consultar_y_transformar_masiva answered
cliente_fetched(got, up1, up2) ==
    IF got.exc
    THEN [cache |-> CloseHeap(got.m), tok |-> got.tok, sheet_cache |-> _sheet_cache,
          status |-> 500, data |-> EmptyDict, fetched |-> EmptyDict, hit |-> FALSE,
          auth_calls |-> got.auth_calls, requests |-> got.requests, reads |-> 0,
          asked |-> FALSE, failed |-> [record |-> TRUE, match |-> FALSE, proposal |-> FALSE]]
    ELSE cliente_found(got,
                       encontrar_abonado_por_nombre(_sheet_cache, sheet, up1,
                                                    Get(got.m.heap[got.ret], "Nombre"), now,
                                                    SHEET_CACHE_TTL),
                       up2)

\* main.api_cliente for a numeric ida.  up1 and up2: whether the upstream sheet
\* answers the read of the name match and that of the proposal.
\* [cache, tok, sheet_cache, status, data, fetched, hit, auth_calls, requests, reads, asked,
\*  failed]: failed tells which of the three lookups raised
api_cliente(id, api, up1, up2) ==
    cliente_fetched(consultar_y_transformar_masiva(OpenHeap(_CACHE), _TOKEN, id, now,
                                                   CACHE_TTL, CACHE_MAX, api),
                    up1, up2)

(***************************************************************************)
(* The process, one request at a time.                                     *)
(***************************************************************************)
\* The deployment's configurations: caching on, and caching switched off.
Configs ==
    {[ttl |-> CacheTtl, max |-> CacheMax, sheet_ttl |-> SheetTtl],
     [ttl |-> 0, max |-> CacheMax, sheet_ttl |-> 0]}

\* How the upstream record API may behave during one call.
GoodApi ==
    [auth |-> "ok", shape |-> 1, variant |-> 1, garbled |-> {}, body |-> "list",
     wrong |-> "empty", nv |-> 1]
Upstreams ==
    {GoodApi,
     [GoodApi EXCEPT !.nv = 2, !.shape = 3, !.variant = 2, !.body = "wrapped", !.wrong = "code"],
     [GoodApi EXCEPT !.shape = 0, !.variant = 3, !.wrong = "code"],
     [GoodApi EXCEPT !.auth = "fail"]}

\* Whether the worksheet answers the two reads of one request.
SheetAnswers == {<<TRUE, TRUE>>, <<FALSE, TRUE>>, <<TRUE, FALSE>>}

\* What the write endpoint is called with: the client the operator works on, the
\* row the page proposed (0 for none) and the upstream call that fails.
MarkRows == {0, MaxRows + 1}
MarkFailures == {0, 1, 4}
NoThreads == {}
Idle == [op |-> "idle"]

Start(configs, threads) ==
    /\ now = 0
    /\ \E c \in configs :
         /\ CACHE_TTL = c.ttl
         /\ CACHE_MAX = c.max
         /\ SHEET_CACHE_TTL = c.sheet_ttl
    /\ _TOKEN = [value |-> "", ts |-> 0]
    /\ _CACHE = << >>
    /\ _sheet_cache = EmptyDict
    /\ sheet = InitSheet
    /\ pc = [th \in threads |-> "idle"]
    /\ loc = [th \in threads |-> Idle]
    /\ _CACHE_LOCK = 0
    /\ _sheet_cache_lock = 0
    /\ confirmed = {}
    /\ touched = << >>
    /\ last = [op |-> "start"]

Init == Start(Configs, NoThreads)

\* time passes
Tick ==
    /\ now < MaxTime
    /\ now' = now + 1
    /\ last' = [op |-> "tick"]
    /\ UNCHANGED <<cfgVars, thrVars, _TOKEN, _CACHE, _sheet_cache, sheet>>

\* GET /api/cliente
Responded(id, r) ==
    /\ _CACHE' = r.cache
    /\ _TOKEN' = r.tok
    /\ _sheet_cache' = r.sheet_cache
    /\ last' = [op |-> "api_cliente", id |-> id, status |-> r.status, data |-> r.data,
                fetched |-> r.fetched, hit |-> r.hit, auth_calls |-> r.auth_calls,
                requests |-> r.requests, reads |-> r.reads, asked |-> r.asked,
                failed |-> r.failed]
    /\ UNCHANGED <<now, cfgVars, thrVars, sheet>>

ApiCliente(id, api, up1, up2) == Responded(id, api_cliente(id, api, up1, up2))

\* POST /api/marcar_registro
Marked(usuario, row_index, r) ==
    /\ _sheet_cache' = r.cache
    /\ sheet' = r.grid
    /\ last' = [op |-> "marcar_registro", status |-> IF r.exc THEN 500 ELSE 200,
                row |-> r.row, row_index |-> row_index, usuario |-> usuario,
                cached |-> DOMAIN _sheet_cache]
    /\ UNCHANGED <<now, cfgVars, thrVars, _TOKEN, _CACHE>>

ApiMarcarRegistro(client, usuario, row_index, fail_at) ==
    Marked(usuario, row_index,
           marcar_registro_sheet(_sheet_cache, sheet, usuario, ToString(client),
                                 CleanName(client, 1), row_index, fail_at))

Next ==
    \/ Tick
    \/ \E id \in 1..MaxId, api \in Upstreams, up \in SheetAnswers :
         ApiCliente(id, api, up[1], up[2])
    \/ \E client \in MarkClients, usuario \in MarkUsers, row_index \in MarkRows,
          fail_at \in MarkFailures :
         ApiMarcarRegistro(client, usuario, row_index, fail_at)

Spec == Init /\ [][Next]_vars

(***************************************************************************)
(* Properties of the request handlers, checked under Spec.                 *)
(***************************************************************************)
Answered == last.op = "api_cliente" /\ last.status = 200
Fresh(e) == now - e.ts <= CACHE_TTL
\* the positions of the record cache that hold a live entry of identifier id
LiveEntries(id) ==
    {i \in 1..Len(_CACHE) : _CACHE[i].key = ToString(id) /\ CACHE_TTL > 0 /\ Fresh(_CACHE[i])}

\* a read that went to the upstream sheet once and answered `expected`
Rereads(answer, expected) == ~answer.exc /\ answer.reads = 1 /\ answer.ret = expected

\* C1: whenever marcar_registro_sheet returns successfully both slots of the
\* sheet cache are absent, and the next load_data_from_sheet and the next
\* obtener_usuario_cic_disponible read the upstream grid once and answer from
\* the grid as written, whatever was cached before the write.
C1_WriteInvalidatesBothSlots ==
    [][(last'.op = "marcar_registro" /\ last'.status = 200) =>
          /\ DOMAIN _sheet_cache' = {}
          /\ Rereads(load_data_from_sheet(_sheet_cache', sheet', TRUE, FALSE, now',
                                          SHEET_CACHE_TTL'),
                     derive_scan(sheet'))
          /\ Rereads(obtener_usuario_cic_disponible(_sheet_cache', sheet', TRUE, now',
                                                    SHEET_CACHE_TTL'),
                     available_scan(sheet'))
          /\ sheet'[last'.row][4] = "Mail"]_vars

\* a successful write that found both slots cached
C1_Witness ==
    /\ last.op = "marcar_registro"
    /\ last.status = 200
    /\ last.cached = {"matrix", "records"}
    /\ _sheet_cache = EmptyDict

\* C3: in one api_cliente response a match and a proposal exclude each other:
\* with ya_tiene_usuario true, UsuarioPropuesto and CICPropuesto are empty and
\* there is no fila_propuesta; obtener_usuario_cic_disponible is called only
\* when no match was found.
C3_MatchExcludesProposal ==
    Answered =>
       /\ last.data["ya_tiene_usuario"] =>
             /\ last.data["UsuarioPropuesto"] = ""
             /\ last.data["CICPropuesto"] = ""
             /\ "fila_propuesta" \notin DOMAIN last.data
       /\ last.asked => ~last.data["ya_tiene_usuario"]
       /\ "fila_propuesta" \in DOMAIN last.data => last.asked

\* client 1, proposed a row before, is answered from the record cache with a match
C3_Witness ==
    /\ Answered
    /\ last.id = 1
    /\ last.hit
    /\ last.data["ya_tiene_usuario"]
    /\ last.data["usuario_sheet"] = "u3"

\* C4: while the record cache holds a live entry of an identifier (set by a
\* successful lookup, within the TTL, not evicted), a lookup of that identifier
\* returns the cached record, equal to what the first lookup returned, and makes
\* no upstream request: no authentication call and no query.  A successful
\* lookup that was not served from the cache leaves its result as the entry.
C4_HitMakesNoRequest ==
    [][\A id \in 1..MaxId :
          (last'.op = "api_cliente" /\ last'.id = id) =>
             /\ \A i \in LiveEntries(id) :
                   /\ last'.status = 200
                   /\ last'.hit
                   /\ last'.auth_calls = 0
                   /\ last'.requests = 0
                   /\ last'.fetched = _CACHE[i].data
             /\ (last'.status = 200 /\ ~last'.hit /\ CACHE_TTL > 0) =>
                   \E j \in 1..Len(_CACHE') :
                      /\ _CACHE'[j].key = ToString(id)
                      /\ _CACHE'[j].data = last'.fetched
                      /\ _CACHE'[j].ts = now]_vars

\* a lookup served from the cache one time unit after the entry was set
C4_Witness ==
    /\ Answered
    /\ last.hit
    /\ last.requests = 0
    /\ \E i \in LiveEntries(last.id) : now - _CACHE[i].ts = CACHE_TTL

\* a lookup that reached the upstream, which returned no usable record
NoRecord == last.op = "api_cliente" /\ last.status = 500 /\ last.requests > 0

\* C5 as stated: when no request shape or variant yields a usable record the
\* lookup fails and the record cache is exactly as it was before the call.
C5_FailureLeavesCacheAsItWas ==
    [][(last'.op = "api_cliente" /\ last'.status = 500 /\ last'.requests > 0) =>
          _CACHE' = _CACHE]_vars

\* C5, amended: when no request shape or variant yields a usable record the
\* lookup fails, and the record cache holds exactly the entries that had not
\* expired, in their order and with their timestamps: nothing is inserted,
\* refreshed or evicted for capacity, and only the expired entries are purged.
C5_FailureOnlyPurges ==
    [][(last'.op = "api_cliente" /\ last'.status = 500 /\ last'.requests > 0) =>
          _CACHE' = SelectSeq(_CACHE, Fresh)]_vars

\* a failed lookup with another identifier's entry still in the cache
C5_Witness == NoRecord /\ Len(_CACHE) > 0

\* C9: what the record cache stores is a copy and what it hands out is a copy.
\* After a successful lookup a get of the same key returns a record equal to the
\* one that was set, although api_cliente has written its sheet fields both into
\* the record it passed to set and into the record a get returned; no stored
\* record ever shows such a field.  In the sheet cache a set followed by a get
\* of the same slot returns the grid that was set.
C9_CopiesIsolateTheCache ==
    /\ \A i \in 1..Len(_CACHE) :
          \E id \in 1..MaxId, nv \in 1..2 :
             /\ _CACHE[i].key = ToString(id)
             /\ _CACHE[i].data = transformar_scan(UpstreamRecord(id, nv))
    /\ (Answered /\ CACHE_TTL > 0) =>
          /\ last.data # last.fetched
          /\ ph_cache_get(OpenHeap(_CACHE), ToString(last.id), now, CACHE_TTL).ref # 0
          /\ ph_cache_get(OpenHeap(_CACHE), ToString(last.id), now, CACHE_TTL).m.heap[
                ph_cache_get(OpenHeap(_CACHE), ToString(last.id), now, CACHE_TTL).ref]
               = last.fetched
    /\ SHEET_CACHE_TTL > 0 =>
          tv_cache_get(tv_cache_set(_sheet_cache, "matrix", sheet, now, SHEET_CACHE_TTL),
                       "matrix", now, SHEET_CACHE_TTL).ret = Some(sheet)

\* a record handed out by the cache, then written to by api_cliente
C9_Witness ==
    /\ Answered
    /\ CACHE_TTL > 0
    /\ last.hit
    /\ "fila_propuesta" \in DOMAIN last.data
    /\ "fila_propuesta" \notin DOMAIN last.fetched

(***************************************************************************)
(* The two caches, their operations called one at a time in any order.     *)
(***************************************************************************)
\* Configurations: the record cache on (the sheet cache off), the sheet cache
\* on (the record cache off), and both off with a negative TTL.
CacheConfigs ==
    {[ttl |-> CacheTtl, max |-> LruMax, sheet_ttl |-> 0],
     [ttl |-> 0, max |-> LruMax, sheet_ttl |-> SheetTtl],
     [ttl |-> -1, max |-> LruMax, sheet_ttl |-> -1]}
CacheKeys == 1..(LruMax + 1)
CacheSlots == {"matrix", "records"}

\* what a caller stores: the record of client id, the grid, the grid's records
CacheValue(id) == [ID |-> ToString(id), Nombre |-> CleanName(id, 1)]
SlotValue(slot) == IF slot = "matrix" THEN sheet ELSE derive_records(sheet)

\* the same values, each telling the time at which its caller stores it
StampedValue(id) == [ID |-> ToString(id), Nombre |-> CleanName(id, 1), stored |-> now]
StampedSlot(slot) == [stored |-> now, value |-> SlotValue(slot)]

\* the recency order with key touched, of the keys still stored in cache
Touch(order, key, cache) ==
    SelectSeq(SelectSeq(order, LAMBDA k : k # key) \o <<key>>, LAMBDA k : HasKey(cache, k))
Stored(order, cache) == SelectSeq(order, LAMBDA k : HasKey(cache, k))

InitCache == Start(CacheConfigs, NoThreads)

\* ph._cache_get(key)
PhGot(key, r) ==
    /\ _CACHE' = CloseHeap(r.m)
    /\ touched' = IF r.ref = 0 THEN Stored(touched, r.m.cache) ELSE Touch(touched, key, r.m.cache)
    /\ last' = [op |-> "ph_get", key |-> key,
                ret |-> IF r.ref = 0 THEN None ELSE Some(r.m.heap[r.ref])]
    /\ UNCHANGED <<now, cfgVars, lockVars, _TOKEN, _sheet_cache, sheet>>

PhGet(id) == PhGot(ToString(id), ph_cache_get(OpenHeap(_CACHE), ToString(id), now, CACHE_TTL))

\* ph._cache_set(key, value); value is a dict object of the caller
PhStored(key, m) ==
    /\ _CACHE' = CloseHeap(m)
    /\ touched' = IF CACHE_TTL <= 0 THEN touched ELSE Touch(touched, key, m.cache)
    /\ last' = [op |-> "ph_set", key |-> key,
                evicted |-> {[key |-> _CACHE[i].key, ts |-> _CACHE[i].ts] :
                               i \in {j \in 1..Len(_CACHE) :
                                        /\ now - _CACHE[j].ts <= CACHE_TTL
                                        /\ _CACHE[j].key # key
                                        /\ ~HasKey(m.cache, _CACHE[j].key)}}]
    /\ UNCHANGED <<now, cfgVars, lockVars, _TOKEN, _sheet_cache, sheet>>

PhSet(id) ==
    PhStored(ToString(id),
             ph_cache_set([OpenHeap(_CACHE) EXCEPT !.heap = Append(@, StampedValue(id))],
                          ToString(id), Len(_CACHE) + 1, now, CACHE_TTL, CACHE_MAX))

\* tv._cache_get(key)
TvGot(slot, r) ==
    /\ _sheet_cache' = r.cache
    /\ last' = [op |-> "tv_get", key |-> slot, ret |-> r.ret]
    /\ UNCHANGED <<now, cfgVars, thrVars, _TOKEN, _CACHE, sheet>>

TvGet(slot) == TvGot(slot, tv_cache_get(_sheet_cache, slot, now, SHEET_CACHE_TTL))

\* tv._cache_set(key, value)
TvSet(slot) ==
    /\ _sheet_cache' = tv_cache_set(_sheet_cache, slot, StampedSlot(slot), now, SHEET_CACHE_TTL)
    /\ last' = [op |-> "tv_set", key |-> slot]
    /\ UNCHANGED <<now, cfgVars, thrVars, _TOKEN, _CACHE, sheet>>

\* tv._cache_clear()
TvClear ==
    /\ _sheet_cache' = tv_cache_clear(_sheet_cache)
    /\ last' = [op |-> "tv_clear"]
    /\ UNCHANGED <<now, cfgVars, thrVars, _TOKEN, _CACHE, sheet>>

NextCache ==
    \/ Tick
    \/ \E id \in CacheKeys : PhGet(id)
    \/ \E id \in CacheKeys : PhSet(id)
    \/ \E slot \in CacheSlots : TvGet(slot)
    \/ \E slot \in CacheSlots : TvSet(slot)
    \/ TvClear

SpecCache == InitCache /\ [][NextCache]_vars

(***************************************************************************)
(* Properties of the cache operations, checked under SpecCache.            *)
(***************************************************************************)
Before(order, a, b) ==
    \E i, j \in 1..Len(order) : i < j /\ order[i] = a /\ order[j] = b

\* C6: with CACHE_MAX > 0 the record cache never holds more than CACHE_MAX
\* entries, its entries stand in the order of their last touch (a get hit or a
\* set), and a set that evicts for capacity evicts keys that were touched
\* before every key it keeps, never the key just set.
C6_CapacityAndLruOrder ==
    [][CACHE_MAX' > 0 =>
         /\ Len(_CACHE') <= CACHE_MAX'
         /\ [i \in 1..Len(_CACHE') |-> _CACHE'[i].key] = touched'
         /\ last'.op = "ph_set" =>
              /\ CACHE_TTL > 0 => _CACHE'[Len(_CACHE')].key = last'.key
              /\ \A e \in last'.evicted :
                   /\ e.key # last'.key
                   /\ \A i \in 1..Len(_CACHE') :
                        _CACHE'[i].key # last'.key => Before(touched, e.key, _CACHE'[i].key)]_vars

\* a set evicted an entry that was stored later than one it kept: the kept one
\* had been touched by a get since
C6_Witness ==
    /\ last.op = "ph_set"
    /\ Len(_CACHE) = CACHE_MAX
    /\ \E e \in last.evicted, i \in 1..Len(_CACHE) : _CACHE[i].ts < e.ts

\* C7: with a TTL <= 0 every get of either cache returns None and no set makes
\* its cache larger.
C7_DisabledCacheStoresNothing ==
    [][/\ (CACHE_TTL <= 0 /\ last'.op = "ph_get") => last'.ret = None
       /\ (CACHE_TTL <= 0 /\ last'.op = "ph_set") => Len(_CACHE') <= Len(_CACHE)
       /\ (SHEET_CACHE_TTL <= 0 /\ last'.op = "tv_get") => last'.ret = None
       /\ (SHEET_CACHE_TTL <= 0 /\ last'.op = "tv_set") =>
             Cardinality(DOMAIN _sheet_cache') <= Cardinality(DOMAIN _sheet_cache)]_vars

C7_Witness ==
    /\ SHEET_CACHE_TTL < 0
    /\ CACHE_TTL < 0
    /\ last.op = "tv_set"
    /\ _sheet_cache = EmptyDict
    /\ now > 0

\* C8: right after a get or a set of a cache, no entry stored in that cache is
\* older than its TTL.
C8_NoExpiredEntryAfterOperation ==
    /\ last.op \in {"ph_get", "ph_set"} =>
          \A i \in 1..Len(_CACHE) : now - _CACHE[i].ts <= CACHE_TTL
    /\ last.op \in {"tv_get", "tv_set"} =>
          \A slot \in DOMAIN _sheet_cache : now - _sheet_cache[slot].ts <= SHEET_CACHE_TTL

(***************************************************************************)
(* Requests in parallel threads: readers run load_data_from_sheet or       *)
(* obtener_usuario_cic_disponible, one writer runs marcar_registro_sheet.  *)
(* A step is one cache operation (each holds _sheet_cache_lock for its     *)
(* whole body) or one call of the worksheet API.                           *)
(***************************************************************************)
Readers == 1..MaxReaders
Writer == 0
ConcThreads == Readers \cup {Writer}
ReaderKinds == {"load_data_from_sheet", "obtener_usuario_cic_disponible"}

InitConc == Start(Configs, ConcThreads)

Goto(th, label) == pc' = [pc EXCEPT ![th] = label]

\* the call starts; seen: the rows whose write had returned by then
ReadStart(th, kind) ==
    /\ pc[th] = "idle"
    /\ Goto(th, "get")
    /\ loc' = [loc EXCEPT ![th] = [op |-> kind, seen |-> confirmed, values |-> None]]
    /\ UNCHANGED <<now, cfgVars, _TOKEN, _CACHE, _sheet_cache, sheet, _CACHE_LOCK,
                   _sheet_cache_lock, confirmed, touched, last>>

\* tv.py:85, 174: values = _cache_get("matrix")
ReadGot(th, r) ==
    /\ pc[th] = "get"
    /\ _sheet_cache' = r.cache
    /\ Goto(th, IF r.ret = None THEN "read" ELSE "derive")
    /\ loc' = [loc EXCEPT ![th].values = r.ret]
    /\ UNCHANGED <<now, cfgVars, _TOKEN, _CACHE, sheet, _CACHE_LOCK, _sheet_cache_lock,
                   confirmed, touched, last>>

ReadGet(th) == ReadGot(th, tv_cache_get(_sheet_cache, "matrix", now, SHEET_CACHE_TTL))

\* tv.py:87-88, 176-177: ws.get_all_values(), or the exception it raises
ReadSheet(th, ok) ==
    /\ pc[th] = "read"
    /\ Goto(th, IF ok THEN "set" ELSE "raised")
    /\ loc' = [loc EXCEPT ![th].values = IF ok THEN Some(sheet) ELSE None]
    /\ UNCHANGED <<now, cfgVars, _TOKEN, _CACHE, _sheet_cache, sheet, _CACHE_LOCK,
                   _sheet_cache_lock, confirmed, touched, last>>

\* tv.py:89, 178: _cache_set("matrix", values)
ReadSet(th) ==
    /\ pc[th] = "set"
    /\ _sheet_cache' = tv_cache_set(_sheet_cache, "matrix", loc[th].values[1], now,
                                    SHEET_CACHE_TTL)
    /\ Goto(th, "derive")
    /\ UNCHANGED <<now, cfgVars, _TOKEN, _CACHE, sheet, loc, _CACHE_LOCK, _sheet_cache_lock,
                   confirmed, touched, last>>

\* tv.py:90-126 (with _cache_set("records", records)), 179-209: the answer is
\* computed from values
ReadServe(th) ==
    /\ pc[th] = "derive"
    /\ _sheet_cache' =
          IF loc[th].op = "load_data_from_sheet" /\ Len(loc[th].values[1]) > 0
          THEN tv_cache_set(_sheet_cache, "records", derive_records(loc[th].values[1]), now,
                            SHEET_CACHE_TTL)
          ELSE _sheet_cache
    /\ Goto(th, "done")
    /\ UNCHANGED <<now, cfgVars, _TOKEN, _CACHE, sheet, loc, _CACHE_LOCK, _sheet_cache_lock,
                   confirmed, touched, last>>

\* tv.py:222-238: the target row, or ValueError
WriteStart(usuario, row_index) ==
    /\ pc[Writer] = "idle"
    /\ Goto(Writer, IF target_of(sheet, usuario, row_index) = 0 THEN "raised" ELSE "update")
    /\ loc' = [loc EXCEPT ![Writer] = [op |-> "marcar_registro_sheet",
                                       row |-> target_of(sheet, usuario, row_index), n |-> 0]]
    /\ UNCHANGED <<now, cfgVars, _TOKEN, _CACHE, _sheet_cache, sheet, _CACHE_LOCK,
                   _sheet_cache_lock, confirmed, touched, last>>

\* tv.py:240-242: one ws.update_cell, or the exception it raises
WriteCell(client, ok) ==
    /\ pc[Writer] = "update"
    /\ sheet' = IF ok THEN mark_cell(sheet, loc[Writer].row, ToString(client),
                                     CleanName(client, 1), loc[Writer].n + 1)
                ELSE sheet
    /\ loc' = [loc EXCEPT ![Writer].n = IF ok THEN @ + 1 ELSE @]
    /\ Goto(Writer, IF ~ok THEN "raised" ELSE IF loc[Writer].n = 2 THEN "format" ELSE "update")
    /\ UNCHANGED <<now, cfgVars, _TOKEN, _CACHE, _sheet_cache, _CACHE_LOCK, _sheet_cache_lock,
                   confirmed, touched, last>>

\* tv.py:244-245: ws.format, or the exception it raises
WriteFormat(ok) ==
    /\ pc[Writer] = "format"
    /\ Goto(Writer, IF ok THEN "clear" ELSE "raised")
    /\ UNCHANGED <<now, cfgVars, _TOKEN, _CACHE, _sheet_cache, sheet, loc, _CACHE_LOCK,
                   _sheet_cache_lock, confirmed, touched, last>>

\* tv.py:247: _cache_clear()
WriteClear ==
    /\ pc[Writer] = "clear"
    /\ _sheet_cache' = tv_cache_clear(_sheet_cache)
    /\ Goto(Writer, "return")
    /\ UNCHANGED <<now, cfgVars, _TOKEN, _CACHE, sheet, loc, _CACHE_LOCK, _sheet_cache_lock,
                   confirmed, touched, last>>

\* tv.py:248: the write returns ok
WriteReturn ==
    /\ pc[Writer] = "return"
    /\ confirmed' = confirmed \cup {loc[Writer].row}
    /\ Goto(Writer, "done")
    /\ UNCHANGED <<now, cfgVars, _TOKEN, _CACHE, _sheet_cache, sheet, loc, _CACHE_LOCK,
                   _sheet_cache_lock, touched, last>>

NextConc ==
    \/ Tick
    \/ \E th \in Readers, kind \in ReaderKinds : ReadStart(th, kind)
    \/ \E th \in Readers : ReadGet(th)
    \/ \E th \in Readers, ok \in BOOLEAN : ReadSheet(th, ok)
    \/ \E th \in Readers : ReadSet(th)
    \/ \E th \in Readers : ReadServe(th)
    \/ \E usuario \in MarkUsers, row_index \in MarkRows : WriteStart(usuario, row_index)
    \/ \E client \in MarkClients, ok \in BOOLEAN : WriteCell(client, ok)
    \/ \E ok \in BOOLEAN : WriteFormat(ok)
    \/ WriteClear
    \/ WriteReturn

SpecConc == InitConc /\ [][NextConc]_vars

(***************************************************************************)
(* Property of the parallel requests, checked under SpecConc.              *)
(***************************************************************************)
\* C2: a read that started after a write had returned is never answered from a
\* grid that predates the write: the rows written are in the grid it is served.
C2_NoStaleGridAfterConfirmedWrite ==
    \A th \in Readers :
       pc[th] = "done" =>
          \A row \in loc[th].seen : loc[th].values[1][row] = sheet[row]

(***************************************************************************)
(* The cache operations called from parallel threads, statement by         *)
(* statement: the clock is read before the lock is taken, the body runs    *)
(* under the lock.  One cache is on in each configuration.                 *)
(***************************************************************************)
LockConfigs ==
    {[ttl |-> CacheTtl, max |-> CacheMax, sheet_ttl |-> 0],
     [ttl |-> 0, max |-> CacheMax, sheet_ttl |-> SheetTtl]}
Callers == 1..MaxCallers
PhInside == {"purge", "pop", "access", "move", "evict", "unlock"}
TvInside == {"taccess", "tpop", "tunlock"}

\* the lock taken by a free-for-all
acquire_unlocked(lock) == TRUE

\* Lock.acquire as `with` calls it: it goes ahead when the lock is free
acquire(lock) == lock = 0

phRest == <<now, cfgVars, _TOKEN, _sheet_cache, sheet, _sheet_cache_lock, confirmed, touched, last>>
tvRest == <<now, cfgVars, _TOKEN, _CACHE, sheet, _CACHE_LOCK, confirmed, touched, last>>

InitLock == Start(LockConfigs, Callers)

\* ph.py:61-63, 75-77: the TTL test and now = time.time()
PhCall(th, op, id) ==
    /\ pc[th] = "idle"
    /\ Goto(th, IF CACHE_TTL <= 0 THEN "return" ELSE "lock")
    /\ loc' = [loc EXCEPT ![th] = [op |-> op, key |-> ToString(id), value |-> CacheValue(id),
                                   t |-> now, snap |-> << >>, expired |-> << >>,
                                   ret |-> None]]
    /\ UNCHANGED <<_CACHE, _CACHE_LOCK, phRest>>

\* ph.py:64, 78: with _CACHE_LOCK; snap: the cache as the caller finds it
PhAcquire(th) ==
    /\ pc[th] = "lock"
    /\ acquire(_CACHE_LOCK)
    /\ _CACHE_LOCK' = th
    /\ Goto(th, "purge")
    /\ loc' = [loc EXCEPT ![th].snap = _CACHE]
    /\ UNCHANGED <<_CACHE, phRest>>

\* ph.py:52-55: clear, or list the expired keys
PhPurgeScan(th) ==
    /\ pc[th] = "purge"
    /\ _CACHE' = IF CACHE_TTL <= 0 THEN << >> ELSE _CACHE
    /\ Goto(th, IF CACHE_TTL <= 0 THEN "access" ELSE "pop")
    /\ loc' = [loc EXCEPT ![th].expired =
                  IF CACHE_TTL <= 0 THEN << >>
                  ELSE [i \in 1..Len(SelectSeq(_CACHE, LAMBDA e : loc[th].t - e.ts > CACHE_TTL)) |->
                          SelectSeq(_CACHE, LAMBDA e : loc[th].t - e.ts > CACHE_TTL)[i].key]]
    /\ UNCHANGED <<_CACHE_LOCK, phRest>>

\* ph.py:56-57: _CACHE.pop(key, None) for the next expired key
PhPurgePop(th) ==
    /\ pc[th] = "pop"
    /\ _CACHE' = IF loc[th].expired = << >> THEN _CACHE
                 ELSE SelectSeq(_CACHE, LAMBDA e : e.key # Head(loc[th].expired))
    /\ Goto(th, IF loc[th].expired = << >> THEN "access" ELSE "pop")
    /\ loc' = [loc EXCEPT ![th].expired = IF @ = << >> THEN @ ELSE Tail(@)]
    /\ UNCHANGED <<_CACHE_LOCK, phRest>>

\* ph.py:66-68: item = _CACHE.get(key)
PhLookup(th) ==
    /\ pc[th] = "access"
    /\ loc[th].op = "get"
    /\ Goto(th, IF HasKey(_CACHE, loc[th].key) THEN "move" ELSE "unlock")
    /\ UNCHANGED <<_CACHE, loc, _CACHE_LOCK, phRest>>

\* ph.py:80: _CACHE[key] = (now, dict(value))
PhAssign(th) ==
    /\ pc[th] = "access"
    /\ loc[th].op = "set"
    /\ _CACHE' = setitem(_CACHE, loc[th].key,
                         [key |-> loc[th].key, ts |-> loc[th].t, data |-> loc[th].value])
    /\ Goto(th, "move")
    /\ UNCHANGED <<loc, _CACHE_LOCK, phRest>>

\* ph.py:69-71, 81: _CACHE.move_to_end(key), KeyError when the key is gone;
\* the get returns dict(data)
PhMove(th) ==
    /\ pc[th] = "move"
    /\ _CACHE' = IF HasKey(_CACHE, loc[th].key) THEN move_to_end(_CACHE, loc[th].key) ELSE _CACHE
    /\ Goto(th, IF loc[th].op = "set" /\ HasKey(_CACHE, loc[th].key) THEN "evict" ELSE "unlock")
    /\ loc' = [loc EXCEPT ![th].ret =
                  IF ~HasKey(_CACHE, loc[th].key) THEN Some("KeyError")
                  ELSE IF loc[th].op = "get"
                  THEN Some(_CACHE[IndexOfKey(_CACHE, loc[th].key)].data)
                  ELSE None]
    /\ UNCHANGED <<_CACHE_LOCK, phRest>>

\* ph.py:82-83: one turn of the while loop
PhEvict(th) ==
    /\ pc[th] = "evict"
    /\ _CACHE' = IF Len(_CACHE) > CACHE_MAX /\ CACHE_MAX > 0 THEN Tail(_CACHE) ELSE _CACHE
    /\ Goto(th, IF Len(_CACHE) > CACHE_MAX /\ CACHE_MAX > 0 THEN "evict" ELSE "unlock")
    /\ UNCHANGED <<loc, _CACHE_LOCK, phRest>>

\* the with block is left
PhRelease(th) ==
    /\ pc[th] = "unlock"
    /\ _CACHE_LOCK' = 0
    /\ Goto(th, "return")
    /\ UNCHANGED <<_CACHE, loc, phRest>>

\* the call returns
Return(th) ==
    /\ pc[th] = "return"
    /\ Goto(th, "idle")
    /\ loc' = [loc EXCEPT ![th] = Idle]
    /\ UNCHANGED <<now, cfgVars, _TOKEN, _CACHE, _sheet_cache, sheet, _CACHE_LOCK,
                   _sheet_cache_lock, confirmed, touched, last>>

\* tv.py:25-27, 40-42: the TTL test and now = time.time(); _cache_clear has neither
TvCall(th, op, slot) ==
    /\ pc[th] = "idle"
    /\ Goto(th, IF op # "clear" /\ SHEET_CACHE_TTL <= 0 THEN "return" ELSE "tlock")
    /\ loc' = [loc EXCEPT ![th] = [op |-> op, key |-> slot, value |-> SlotValue(slot),
                                   t |-> now, snap |-> EmptyDict, ret |-> None]]
    /\ UNCHANGED <<_sheet_cache, _sheet_cache_lock, tvRest>>

\* tv.py:28, 43, 48: with _sheet_cache_lock
TvAcquire(th) ==
    /\ pc[th] = "tlock"
    /\ acquire(_sheet_cache_lock)
    /\ _sheet_cache_lock' = th
    /\ Goto(th, "taccess")
    /\ loc' = [loc EXCEPT ![th].snap = _sheet_cache]
    /\ UNCHANGED <<_sheet_cache, tvRest>>

\* tv.py:29-33, 36: the entry, its age, the copy returned
TvLookup(th) ==
    /\ pc[th] = "taccess"
    /\ loc[th].op = "get"
    /\ Goto(th, IF loc[th].key \in DOMAIN _sheet_cache
                   /\ loc[th].t - _sheet_cache[loc[th].key].ts > SHEET_CACHE_TTL
                THEN "tpop" ELSE "tunlock")
    /\ loc' = [loc EXCEPT ![th].ret =
                  IF loc[th].key \in DOMAIN _sheet_cache
                     /\ ~(loc[th].t - _sheet_cache[loc[th].key].ts > SHEET_CACHE_TTL)
                  THEN Some(deepcopy(_sheet_cache[loc[th].key].value))
                  ELSE None]
    /\ UNCHANGED <<_sheet_cache, _sheet_cache_lock, tvRest>>

\* tv.py:34-35: _sheet_cache.pop(key, None)
TvPop(th) ==
    /\ pc[th] = "tpop"
    /\ _sheet_cache' = DictPop(_sheet_cache, loc[th].key)
    /\ Goto(th, "tunlock")
    /\ UNCHANGED <<loc, _sheet_cache_lock, tvRest>>

\* tv.py:44: _sheet_cache[key] = (now, deepcopy(value))
TvAssign(th) ==
    /\ pc[th] = "taccess"
    /\ loc[th].op = "set"
    /\ _sheet_cache' = DictSet(_sheet_cache, loc[th].key,
                               [ts |-> loc[th].t, value |-> deepcopy(loc[th].value)])
    /\ Goto(th, "tunlock")
    /\ UNCHANGED <<loc, _sheet_cache_lock, tvRest>>

\* tv.py:49: _sheet_cache.clear()
TvClearAll(th) ==
    /\ pc[th] = "taccess"
    /\ loc[th].op = "clear"
    /\ _sheet_cache' = EmptyDict
    /\ Goto(th, "tunlock")
    /\ UNCHANGED <<loc, _sheet_cache_lock, tvRest>>

\* the with block is left
TvRelease(th) ==
    /\ pc[th] = "tunlock"
    /\ _sheet_cache_lock' = 0
    /\ Goto(th, "return")
    /\ UNCHANGED <<_sheet_cache, loc, tvRest>>

NextLock ==
    \/ Tick
    \/ \E th \in Callers, op \in {"get", "set"}, id \in 1..MaxId : PhCall(th, op, id)
    \/ \E th \in Callers : PhAcquire(th)
    \/ \E th \in Callers : PhPurgeScan(th)
    \/ \E th \in Callers : PhPurgePop(th)
    \/ \E th \in Callers : PhLookup(th)
    \/ \E th \in Callers : PhAssign(th)
    \/ \E th \in Callers : PhMove(th)
    \/ \E th \in Callers : PhEvict(th)
    \/ \E th \in Callers : PhRelease(th)
    \/ \E th \in Callers, op \in {"get", "set", "clear"}, slot \in CacheSlots : TvCall(th, op, slot)
    \/ \E th \in Callers : TvAcquire(th)
    \/ \E th \in Callers : TvLookup(th)
    \/ \E th \in Callers : TvPop(th)
    \/ \E th \in Callers : TvAssign(th)
    \/ \E th \in Callers : TvClearAll(th)
    \/ \E th \in Callers : TvRelease(th)
    \/ \E th \in Callers : Return(th)

SpecLock == InitLock /\ [][NextLock]_vars

(***************************************************************************)
(* Property of the locked cache operations, checked under SpecLock.        *)
(***************************************************************************)
\* what the body of the call of l has done and answers, against the operation
\* applied in one step to the cache the caller found
PhGetIsAtomic(l, r) ==
    /\ _CACHE = CloseHeap(r.m)
    /\ l.ret = IF r.ref = 0 THEN None ELSE Some(r.m.heap[r.ref])
PhIsAtomic(l) ==
    IF l.op = "get"
    THEN PhGetIsAtomic(l, ph_cache_get(OpenHeap(l.snap), l.key, l.t, CACHE_TTL))
    ELSE /\ _CACHE = CloseHeap(ph_cache_set([OpenHeap(l.snap) EXCEPT !.heap = Append(@, l.value)],
                                            l.key, Len(l.snap) + 1, l.t, CACHE_TTL, CACHE_MAX))
         /\ HasKey(_CACHE, l.key)
TvGetIsAtomic(l, r) == _sheet_cache = r.cache /\ l.ret = r.ret
TvIsAtomic(l) ==
    CASE l.op = "get" -> TvGetIsAtomic(l, tv_cache_get(l.snap, l.key, l.t, SHEET_CACHE_TTL))
      [] l.op = "set" -> _sheet_cache = tv_cache_set(l.snap, l.key, l.value, l.t, SHEET_CACHE_TTL)
      [] OTHER -> _sheet_cache = tv_cache_clear(l.snap)

\* C10: under any interleaving, the body of a cache call runs alone in its
\* cache, and when it leaves the lock the cache and its answer are those of
\* ph._cache_get / _cache_set (tv: _cache_get / _cache_set / _cache_clear)
\* applied in one step to the cache it found when it took the lock: a set is
\* stored, the purge is whole, and a free record cache is within CACHE_MAX.
C10_CacheCallsAreAtomic ==
    /\ \A th \in Callers :
          /\ pc[th] \in PhInside => _CACHE_LOCK = th
          /\ pc[th] \in TvInside => _sheet_cache_lock = th
          /\ pc[th] = "unlock" => PhIsAtomic(loc[th])
          /\ pc[th] = "tunlock" => TvIsAtomic(loc[th])
    /\ (_CACHE_LOCK = 0 /\ CACHE_MAX > 0) => Len(_CACHE) <= CACHE_MAX

\* a set that evicted a live entry for capacity is about to leave the lock
\* while another caller, which read the clock earlier, waits to get that entry
C10_Witness ==
    \E th, other \in Callers :
       /\ pc[th] = "unlock"
       /\ loc[th].op = "set"
       /\ pc[other] = "lock"
       /\ loc[other].op = "get"
       /\ loc[other].t < loc[th].t
       /\ \E i \in 1..Len(loc[th].snap) :
             /\ loc[th].t - loc[th].snap[i].ts <= CACHE_TTL
             /\ ~HasKey(_CACHE, loc[th].snap[i].key)
             /\ loc[other].key = loc[th].snap[i].key

(***************************************************************************)
(* ph._token called from parallel threads, statement by statement.  No     *)
(* lock is taken in ph.py:86-103.  The authentication service is thread 0: *)
(* its locals list the tokens it issued, each with the clock reading of    *)
(* the caller that is going to store it.  The clock moves by half the      *)
(* validity window.                                                        *)
(***************************************************************************)
AuthService == 0
AuthAnswers == {"ok", "fail", "empty"}
Refreshing == {"auth", "wvalue", "wts"}
tokRest == <<cfgVars, _CACHE, _sheet_cache, sheet, _CACHE_LOCK, _sheet_cache_lock, confirmed,
             touched, last>>

InitToken ==
    /\ now = 0
    /\ CACHE_TTL = CacheTtl
    /\ CACHE_MAX = CacheMax
    /\ SHEET_CACHE_TTL = SheetTtl
    /\ _TOKEN = [value |-> "", ts |-> 0]
    /\ _CACHE = << >>
    /\ _sheet_cache = EmptyDict
    /\ sheet = InitSheet
    /\ pc = [th \in Callers \cup {AuthService} |-> "idle"]
    /\ loc = [th \in Callers \cup {AuthService} |->
                IF th = AuthService THEN [op |-> "autentificar", issued |-> << >>] ELSE Idle]
    /\ _CACHE_LOCK = 0
    /\ _sheet_cache_lock = 0
    /\ confirmed = {}
    /\ touched = << >>
    /\ last = [op |-> "start"]

TokenTick ==
    /\ now < MaxTime * (TOKEN_MAX_AGE \div 2)
    /\ now' = now + TOKEN_MAX_AGE \div 2
    /\ UNCHANGED <<_TOKEN, pc, loc, tokRest>>

\* ph.py:89: now = time.time()
TokCall(th) ==
    /\ pc[th] = "idle"
    /\ Goto(th, "value")
    /\ loc' = [loc EXCEPT ![th] = [op |-> "_token", t |-> now, value |-> "", ts |-> 0,
                                   both |-> FALSE, token |-> ""]]
    /\ UNCHANGED <<now, _TOKEN, tokRest>>

\* ph.py:90: _TOKEN["value"], the left operand of `and`
TokReadValue(th) ==
    /\ pc[th] = "value"
    /\ Goto(th, IF _TOKEN.value = "" THEN "auth" ELSE "ts")
    /\ loc' = [loc EXCEPT ![th].value = _TOKEN.value]
    /\ UNCHANGED <<now, _TOKEN, tokRest>>

\* ph.py:90: now - _TOKEN["ts"] < 12 * 60
TokReadTs(th) ==
    /\ pc[th] = "ts"
    /\ Goto(th, IF loc[th].t - _TOKEN.ts < TOKEN_MAX_AGE THEN "cached" ELSE "auth")
    /\ loc' = [loc EXCEPT ![th].ts = _TOKEN.ts, ![th].both = TRUE]
    /\ UNCHANGED <<now, _TOKEN, tokRest>>

\* ph.py:91: return _TOKEN["value"]
TokReturnCached(th) ==
    /\ pc[th] = "cached"
    /\ Goto(th, "return")
    /\ loc' = [loc EXCEPT ![th].token = _TOKEN.value]
    /\ UNCHANGED <<now, _TOKEN, tokRest>>

\* ph.py:92-100: the authentication call; it raises on an HTTP error or an
\* answer without a token
TokAuth(th, answer) ==
    /\ pc[th] = "auth"
    /\ Len(loc[AuthService].issued) < MaxAuth
    /\ Goto(th, IF answer = "ok" THEN "wvalue" ELSE "return")
    /\ loc' = IF answer = "ok"
              THEN [loc EXCEPT ![th].token = "tk" \o ToString(Len(loc[AuthService].issued) + 1),
                               ![AuthService].issued =
                                   Append(@, [value |-> "tk" \o ToString(Len(@) + 1),
                                              ts |-> loc[th].t])]
              ELSE loc
    /\ UNCHANGED <<now, _TOKEN, tokRest>>

\* ph.py:101: _TOKEN["value"] = token
TokWriteValue(th) ==
    /\ pc[th] = "wvalue"
    /\ _TOKEN' = [_TOKEN EXCEPT !.value = loc[th].token]
    /\ Goto(th, "wts")
    /\ UNCHANGED <<now, loc, tokRest>>

\* ph.py:102-103: _TOKEN["ts"] = now; return token
TokWriteTs(th) ==
    /\ pc[th] = "wts"
    /\ _TOKEN' = [_TOKEN EXCEPT !.ts = loc[th].t]
    /\ Goto(th, "return")
    /\ UNCHANGED <<now, loc, tokRest>>

NextToken ==
    \/ TokenTick
    \/ \E th \in Callers : TokCall(th)
    \/ \E th \in Callers : TokReadValue(th)
    \/ \E th \in Callers : TokReadTs(th)
    \/ \E th \in Callers : TokReturnCached(th)
    \/ \E th \in Callers, answer \in AuthAnswers : TokAuth(th, answer)
    \/ \E th \in Callers : TokWriteValue(th)
    \/ \E th \in Callers : TokWriteTs(th)
    \/ \E th \in Callers : Return(th)

SpecToken == InitToken /\ [][NextToken]_vars

(***************************************************************************)
(* Property of the parallel token calls, checked under SpecToken.          *)
(***************************************************************************)
\* C11: a caller that has read the token's value and its timestamp has read a
\* pair that one refresh stored, and at no time are two callers both between
\* deciding to authenticate and storing the timestamp.
C11_TokenRefreshIsSerialized ==
    /\ \A th \in Callers :
          (pc[th] \in {"cached", "auth"} /\ loc[th].both) =>
              [value |-> loc[th].value, ts |-> loc[th].ts] \in Range(loc[AuthService].issued)
    /\ Cardinality({th \in Callers : pc[th] \in Refreshing}) <= 1

(***************************************************************************)
(* The functions of ph.py and tv.py one call at a time, each applied to    *)
(* arguments drawn from a bounded set; last records the call: its          *)
(* arguments and what it returned.                                         *)
(***************************************************************************)
pureRest == <<now, cfgVars, thrVars, _TOKEN, _CACHE, _sheet_cache, sheet>>

\* one call of fn is about to be made with these arguments
Called(fn, args) ==
    /\ now = 0
    /\ CACHE_TTL = CacheTtl
    /\ CACHE_MAX = CacheMax
    /\ SHEET_CACHE_TTL = SheetTtl
    /\ _TOKEN = [value |-> "", ts |-> 0]
    /\ _CACHE = << >>
    /\ _sheet_cache = EmptyDict
    /\ sheet = InitSheet
    /\ pc = [th \in NoThreads |-> "idle"]
    /\ loc = [th \in NoThreads |-> Idle]
    /\ _CACHE_LOCK = 0
    /\ _sheet_cache_lock = 0
    /\ confirmed = {}
    /\ touched = << >>
    /\ last = [op |-> "call", fn |-> fn, args |-> args]

Calling(fn) == last.op = "call" /\ last.fn = fn

\* The clock readings around the multiples of half the maximal token age.
TokenTimes ==
    {k * (TOKEN_MAX_AGE \div 2) + d : k \in 0..MaxTime, d \in {-1, 0, 1}} \cap Nat

\* _TOKEN as a call of _token may find it: never filled, or filled at some time.
TokenStates ==
    {[value |-> "", ts |-> 0]} \cup {[value |-> "tk0", ts |-> ts] : ts \in TokenTimes}

TokenCalls ==
    {[tok |-> tok, t |-> t, auth |-> auth] :
        tok \in TokenStates, t \in TokenTimes, auth \in AuthAnswers}

\* Header rows, each with the columns find_col_idx is to locate in it (0: none).
HeaderCases ==
    {[row |-> <<"ID", "Usuario", "CIC", "Registrado">>, usuario |-> 2, cic |-> 3, reg |-> 4],
     [row |-> <<"Usuario GP", " C-i_c ", "Registrado?", "usuario">>,
      usuario |-> 4, cic |-> 2, reg |-> 3],
     [row |-> <<"CIC nuevo", "CIC", "Usuarios", "REGISTRADO">>,
      usuario |-> 3, cic |-> 2, reg |-> 4],
     [row |-> <<"ID", "Usuario", "CIC", "Estado">>, usuario |-> 2, cic |-> 3, reg |-> 0],
     [row |-> <<"Cicl", "User", "Registrado">>, usuario |-> 0, cic |-> 1, reg |-> 3]}

\* Rows under such a header.
DataRows ==
    {<<"1", "u1", "c1", "si">>, <<"2", "u2", "c2", "no">>, <<"3", " u3 ", "", " No ">>,
     <<"4", " ", "", "N">>, <<"5", "u5">>, <<"", "0", "false", "FALSE">>,
     <<"", "", "", "">>}

MaxData == MaxRows + 1
RowLists(rows, n) == UNION {[1..k -> rows] : k \in 0..n}
AvailableCalls ==
    {[header |-> h, grid |-> <<h.row>> \o rows] : h \in HeaderCases,
                                                 rows \in RowLists(DataRows, MaxData)}

\* How the record API may answer one lookup.
QueryApis ==
    {[auth |-> "ok", shape |-> shape, variant |-> variant, garbled |-> garbled,
      body |-> body, wrong |-> wrong, nv |-> nv] :
        shape \in 0..4, variant \in 1..4, garbled \in SUBSET (1..3),
        body \in {"list", "other", "wrapped", "self", "coderr", "none"},
        wrong \in {"empty", "code"}, nv \in 1..2}
QueryCalls == {[id |-> id, api |-> api] : id \in 1..MaxId, api \in QueryApis}

\* The records of an answer: the identifier under ID or under IDA, as a string
\* or as a number, from 0 up; and a record without an identifier.
AnswerRecords ==
    {DictSet([RS |-> "Paz, Ana", numbers |-> IF number THEN {key} ELSE {}], key, ToString(n)) :
        key \in {"ID", "IDA"}, n \in 0..MaxId, number \in BOOLEAN}
    \cup {[RS |-> "Paz, Ana", ID |-> "", IDA |-> ToString(MaxId)], [RS |-> "Paz, Ana"]}
MaxRecords == MaxId
Answers ==
    {JsonList(items) : items \in RowLists(AnswerRecords, MaxRecords)}
    \cup {JsonDict([data |-> items], [code |-> "200"]) :
             items \in RowLists(AnswerRecords, MaxRecords - 1)}
    \cup {JsonDict([rows |-> items], [code |-> "500"]) :
             items \in RowLists(AnswerRecords, MaxRecords - 1)}
SelectCalls == {[data |-> data, id |-> id] : data \in Answers, id \in 0..MaxId}

\* Rows at the top of a worksheet, each with the number of its cells that are
\* not empty and with whether one of its cells is CIC.
TopRows ==
    {[cells |-> <<"Listado", "", " ">>, nonempty |-> 1, cic |-> FALSE],
     [cells |-> <<"Abonado", " cic ", "Usuario">>, nonempty |-> 3, cic |-> TRUE],
     [cells |-> <<"Nro", "Cliente", "Usuario", "CICLO">>, nonempty |-> 4, cic |-> FALSE],
     [cells |-> <<"", "  ">>, nonempty |-> 0, cic |-> FALSE],
     [cells |-> <<"501", "Cic">>, nonempty |-> 2, cic |-> TRUE],
     [cells |-> <<"7", "ANA PAZ", "", "u7">>, nonempty |-> 3, cic |-> FALSE]}
HeaderCalls == UNION {[1..k -> TopRows] : k \in 1..(HeaderWindow + 1)}

\* Grids for the records: title rows, a header row with the column names it
\* gives, and rows under it, each with whether all its cells are empty.
TitleRows == {<<"Listado">>, <<"", " ">>}
NamedHeaders ==
    {[cells |-> <<"Abonado", "CIC", " Usuario ">>, names |-> <<"Abonado", "CIC", "Usuario">>],
     [cells |-> <<"CIC", "", "CIC", "col_2">>, names |-> <<"CIC", "col_2", "CIC_2", "col_2_2">>],
     [cells |-> <<"CIC", "CIC", "CIC_2">>, names |-> <<"CIC", "CIC_2", "CIC_2">>]}
BodyRows ==
    {[cells |-> <<"501", "c1", " u1 ">>, blank |-> FALSE],
     [cells |-> <<"502">>, blank |-> FALSE],
     [cells |-> <<"", " ", "">>, blank |-> TRUE],
     [cells |-> << >>, blank |-> TRUE],
     [cells |-> <<"503", "c3", "u3", "x3", "y3">>, blank |-> FALSE],
     [cells |-> <<"", "", "u4">>, blank |-> FALSE]}
RecordCalls ==
    {[titles |-> titles, header |-> header, body |-> body] :
        titles \in RowLists(TitleRows, MaxRows), header \in NamedHeaders,
        body \in RowLists(BodyRows, MaxData)}

\* Rows of a worksheet whose third column holds the user names.
UserRows ==
    {<<"501", "c1", "u1", "no">>, <<"502", "c2", " u2 ", "no">>, <<"503", "c3", "", "no">>,
     <<"504", "c4", "u1", "si">>, <<"505", "c5">>}
MarkNames == {"u1", " u2", "zz", "", "Usuario"}
MarkCalls ==
    {[grid |-> <<<<"Abonado", "CIC", "Usuario", "Registrado">>>> \o rows,
      usuario |-> usuario, row_index |-> row_index] :
        rows \in RowLists(UserRows, MaxData), usuario \in MarkNames,
        row_index \in -1..(MaxData + 2)}

\* Names, each with its tokens (upper case, accents dropped) in alphabetical
\* order: two names hold the same tokens as often iff these lists are equal.
\* A call names them by their positions in this list.
NameCases ==
    <<[text |-> "Juan García", tokens |-> <<"GARCIA", "JUAN">>],
      [text |-> "GARCIA, juan", tokens |-> <<"GARCIA", "JUAN">>],
      [text |-> "Juan Garcias", tokens |-> <<"GARCIAS", "JUAN">>],
      [text |-> "Juan Juan Garcia", tokens |-> <<"GARCIA", "JUAN", "JUAN">>],
      [text |-> "Juan  G.", tokens |-> <<"G", "JUAN">>],
      [text |-> "juan", tokens |-> <<"JUAN">>],
      [text |-> "", tokens |-> << >>],
      [text |-> " - ", tokens |-> << >>]>>

\* Header rows, each with the column whose cells are the names (0: none).
NameHeaders ==
    <<[cells |-> <<"Abonado", "CIC", "Usuario", "Nombre">>, named |-> 4],
      [cells |-> <<"Abonado", "CIC", "Razón Social", "Obs">>, named |-> 3],
      [cells |-> <<"Abonado", "CIC", "Titular del servicio", "Nombre">>, named |-> 4],
      [cells |-> <<"Abonado", "CIC", "Usuario", "Obs">>, named |-> 0]>>

\* the row at position i under a header: its first cell tells the position
NamedRow(header, name, i) ==
    [j \in 1..Len(header.cells) |->
        IF j = 1 THEN "50" \o ToString(i) ELSE IF j = header.named THEN name.text ELSE "x"]

\* the worksheet of a call: the header and one row for each name
NamedGrid(header, names) ==
    <<header.cells>> \o [i \in 1..Len(names) |-> NamedRow(header, NameCases[names[i]], i)]

MatchCalls ==
    {[header |-> header, names |-> names, query |-> query] :
        header \in 1..Len(NameHeaders), names \in RowLists(1..Len(NameCases), MaxData),
        query \in 1..Len(NameCases)}

InitPure ==
    \/ \E c \in TokenCalls : Called("_token", c)
    \/ \E c \in AvailableCalls : Called("obtener_usuario_cic_disponible", c)
    \/ \E c \in MarkCalls : Called("marcar_registro_sheet", c)
    \/ \E c \in QueryCalls : Called("consulta_masiva_por_id", c)
    \/ \E c \in SelectCalls : Called("select_record", c)
    \/ \E c \in HeaderCalls : Called("pick_header", c)
    \/ \E c \in RecordCalls : Called("load_data_from_sheet", c)
    \/ \E c \in MatchCalls : Called("encontrar_abonado_por_nombre", c)

\* ph._token() called at time t
TokenApplied ==
    /\ Calling("_token")
    /\ last' = [op |-> "_token", tok |-> last.args.tok, t |-> last.args.t,
                auth |-> last.args.auth,
                r |-> _token(last.args.tok, last.args.t, [auth |-> last.args.auth])]
    /\ UNCHANGED pureRest

\* tv.obtener_usuario_cic_disponible() with nothing cached and the worksheet
\* holding the grid
AvailableApplied ==
    /\ Calling("obtener_usuario_cic_disponible")
    /\ last' = [op |-> "obtener_usuario_cic_disponible", header |-> last.args.header,
                grid |-> last.args.grid,
                r |-> obtener_usuario_cic_disponible(EmptyDict, last.args.grid, TRUE, now,
                                                    SHEET_CACHE_TTL)]
    /\ UNCHANGED pureRest

\* tv.marcar_registro_sheet(usuario, "7", "ANA PAZ", row_index) with the worksheet
\* answering every call
MarkApplied ==
    /\ Calling("marcar_registro_sheet")
    /\ last' = [op |-> "marcar_registro_sheet", grid |-> last.args.grid,
                usuario |-> last.args.usuario, row_index |-> last.args.row_index,
                r |-> marcar_registro_sheet(EmptyDict, last.args.grid, last.args.usuario,
                                            "7", "ANA PAZ", last.args.row_index, 0)]
    /\ UNCHANGED pureRest

\* ph.consulta_masiva_por_id(id) with no token cached; lookup is what
\* consultar_y_transformar_masiva makes of its answer (ph.py:259-264)
QueryApplied ==
    /\ Calling("consulta_masiva_por_id")
    /\ last' = [op |-> "consulta_masiva_por_id", id |-> last.args.id, api |-> last.args.api,
                r |-> consulta_masiva_por_id(_TOKEN, last.args.id, now, last.args.api),
                lookup |-> fetched_record(OpenHeap(_CACHE),
                                          consulta_masiva_por_id(_TOKEN, last.args.id, now,
                                                                 last.args.api),
                                          ToString(last.args.id), now, CACHE_TTL, CACHE_MAX)]
    /\ UNCHANGED pureRest

\* ph.py:159-169: what consulta_masiva_por_id makes of the answer to one payload
SelectApplied ==
    /\ Calling("select_record")
    /\ last' = [op |-> "select_record", data |-> last.args.data, id |-> last.args.id,
                ret |-> select_record(Some(last.args.data), last.args.id)]
    /\ UNCHANGED pureRest

\* tv.py:94-103: the header row load_data_from_sheet picks in a grid
HeaderApplied ==
    /\ Calling("pick_header")
    /\ last' = [op |-> "pick_header", rows |-> last.args,
                header_index |-> pick_header([i \in 1..Len(last.args) |-> last.args[i].cells],
                                             1, -1, 1)]
    /\ UNCHANGED pureRest

\* tv.load_data_from_sheet() with nothing cached and the worksheet holding the
\* title rows, the header and the rows under it
RecordsApplied ==
    /\ Calling("load_data_from_sheet")
    /\ last' = [op |-> "load_data_from_sheet", titles |-> last.args.titles,
                header |-> last.args.header, body |-> last.args.body,
                r |-> load_data_from_sheet(
                          EmptyDict,
                          last.args.titles \o <<last.args.header.cells>>
                              \o [i \in 1..Len(last.args.body) |-> last.args.body[i].cells],
                          TRUE, FALSE, now, SHEET_CACHE_TTL)]
    /\ UNCHANGED pureRest

\* the subscriber number of a match
found_abonado(r) == IF r.ret = None THEN None ELSE Some(r.ret[1].abonado)

\* tv.encontrar_abonado_por_nombre(query) with nothing cached and the worksheet
\* holding the header and one row for each name
MatchApplied ==
    /\ Calling("encontrar_abonado_por_nombre")
    /\ \E r \in {encontrar_abonado_por_nombre(
                     EmptyDict, NamedGrid(NameHeaders[last.args.header], last.args.names),
                     TRUE, NameCases[last.args.query].text, now, SHEET_CACHE_TTL)} :
          last' = [op |-> "encontrar_abonado_por_nombre", header |-> last.args.header,
                   names |-> last.args.names, query |-> last.args.query,
                   exc |-> r.exc, abonado |-> found_abonado(r)]
    /\ UNCHANGED pureRest

NextPure ==
    \/ MatchApplied
    \/ HeaderApplied
    \/ RecordsApplied
    \/ QueryApplied
    \/ SelectApplied
    \/ TokenApplied
    \/ AvailableApplied
    \/ MarkApplied

SpecPure == InitPure /\ [][NextPure]_vars

(***************************************************************************)
(* Properties of single calls, checked under SpecPure.                     *)
(***************************************************************************)
\* the cached token is missing or at least twelve minutes old at time t
TokenIsStale(tok, t) == tok.value = "" \/ t - tok.ts >= 12 * 60

Qualifies(g, h, r) ==
    /\ lower(strip(CellAt(g[r], h.reg))) \in {"no", "n", "false", "0"}
    /\ strip(CellAt(g[r], h.usuario)) # "" \/ strip(CellAt(g[r], h.cic)) # ""

Located(h) == h.usuario > 0 /\ h.cic > 0 /\ h.reg > 0

RowsOfUser(grid, usuario) ==
    {r \in 2..Len(col_values(grid, 3)) : strip(CellAt(grid[r], 3)) = strip(usuario)}

\* the cells of row r are in after what they are in before
SameRow(before, after, r) ==
    \A j \in 1..SheetWidth(after) :
        CellAt(IF r <= Len(after) THEN after[r] ELSE << >>, j)
            = CellAt(IF r <= Len(before) THEN before[r] ELSE << >>, j)

\* row is the one row of the worksheet that was written
WrittenRowIs(before, after, row) ==
    /\ CellAt(after[row], 4) = "Mail"
    /\ CellAt(after[row], 6) = "7"
    /\ \A r \in 1..Len(after) : r # row => SameRow(before, after, r)

RecordIntact == \A k \in DOMAIN last.fetched : last.data[k] = last.fetched[k]

\* C16: in api_cliente a failure of the name match or of the search for a free
\* row never fails the request: the response still carries the client's record,
\* with no match (empty abonado, usuario and cic) or with no proposal (empty
\* UsuarioPropuesto and CICPropuesto); a failure of the record lookup itself is
\* answered with an error.
C16_EnrichmentIsBestEffort ==
    last.op = "api_cliente" =>
        /\ last.failed.record => last.status = 500
        /\ last.failed.match =>
              /\ last.status = 200
              /\ RecordIntact
              /\ ~last.data["ya_tiene_usuario"]
              /\ last.data["abonado_sheet"] = ""
              /\ last.data["usuario_sheet"] = ""
              /\ last.data["cic_sheet"] = ""
        /\ last.failed.proposal =>
              /\ last.status = 200
              /\ RecordIntact
              /\ last.data["UsuarioPropuesto"] = ""
              /\ last.data["CICPropuesto"] = ""
              /\ "fila_propuesta" \notin DOMAIN last.data

\* the name match of client 2, who is in the sheet, fails and the request is
\* answered with the record and a proposed row
C16_Witness ==
    /\ last.op = "api_cliente"
    /\ last.id = 2
    /\ last.failed.match
    /\ last.status = 200
    /\ last.data["ID"] = "2"
    /\ last.data["UsuarioPropuesto"] = "u3"

(***************************************************************************)
(* GET /api/cliente asked again for the same client while other people     *)
(* edit the worksheet.  loc[id] is the answer last given for client id     *)
(* since the last POST /api/marcar_registro, Idle when there is none.  The *)
(* record API answers every call with the same record (GoodApi).           *)
(***************************************************************************)
ReconcileAnswers == SheetAnswers \cup {<<FALSE, FALSE>>}

\* The worksheet as other people may leave it: untouched, its free row taken,
\* and client 1 entered by hand in row 3.
SheetEdits ==
    {InitSheet, update_cell(InitSheet, 3, 4, "si"),
     write_cells(InitSheet, 3, "1", CleanName(1, 1), 3)}

InitReconcile == Start(Configs, 1..MaxId)

\* the grid slot is live now and was stored no later than the answer prev
GridKept(prev) ==
    /\ prev # Idle
    /\ "matrix" \in DOMAIN _sheet_cache
    /\ now - _sheet_cache["matrix"].ts <= SHEET_CACHE_TTL
    /\ _sheet_cache["matrix"].ts <= prev.t

\* somebody edits the worksheet
SheetEdited(grid) ==
    /\ grid # sheet
    /\ sheet' = grid
    /\ last' = [op |-> "edit"]
    /\ UNCHANGED <<now, cfgVars, thrVars, _TOKEN, _CACHE, _sheet_cache>>

\* GET /api/cliente
Reconciled(id, r) ==
    /\ r.status = 200
    /\ _CACHE' = r.cache
    /\ _TOKEN' = r.tok
    /\ _sheet_cache' = r.sheet_cache
    /\ loc' = [loc EXCEPT ![id] = [op |-> "api_cliente", t |-> now, data |-> r.data,
                                   failed |-> r.failed]]
    /\ last' = [op |-> "reconcile", id |-> id, data |-> r.data, failed |-> r.failed,
                prev |-> loc[id], kept |-> GridKept(loc[id])]
    /\ UNCHANGED <<now, cfgVars, sheet, pc, _CACHE_LOCK, _sheet_cache_lock, confirmed,
                   touched>>

Reconcile(id, up1, up2) == Reconciled(id, api_cliente(id, GoodApi, up1, up2))

\* POST /api/marcar_registro
ReconcileMarked(r) ==
    /\ ~r.exc
    /\ _sheet_cache' = r.cache
    /\ sheet' = r.grid
    /\ loc' = [id \in DOMAIN loc |-> Idle]
    /\ last' = [op |-> "marcar_registro", row |-> r.row]
    /\ UNCHANGED <<now, cfgVars, _TOKEN, _CACHE, pc, _CACHE_LOCK, _sheet_cache_lock,
                   confirmed, touched>>

ReconcileMark(client, usuario, row_index) ==
    ReconcileMarked(marcar_registro_sheet(_sheet_cache, sheet, usuario, ToString(client),
                                          CleanName(client, 1), row_index, 0))

NextReconcile ==
    \/ Tick
    \/ \E grid \in SheetEdits : SheetEdited(grid)
    \/ \E id \in 1..MaxId, up \in ReconcileAnswers : Reconcile(id, up[1], up[2])
    \/ \E client \in MarkClients, usuario \in MarkUsers, row_index \in MarkRows :
         ReconcileMark(client, usuario, row_index)

SpecReconcile == InitReconcile /\ [][NextReconcile]_vars

ShapeNames ==
    <<<<"ID_Desde", "ID_Hasta">>, <<"Id_Desde", "Id_Hasta">>, <<"IDDesde", "IDHasta">>,
      <<"Desde", "Hasta">>>>
VariantNames == <<"POST-JSON", "POST-form", "GET-query">>

\* request a comes right before request b in the fixed order
NextInOrder(a, b) ==
    \/ a.shape = b.shape /\ b.variant = a.variant + 1
    \/ b.shape = a.shape + 1 /\ b.variant = 1

\* C17: consulta_masiva_por_id tries the four payloads in their fixed order and,
\* for each, POST-JSON, then POST-form, then GET-query; it makes no further
\* attempt of a payload after the first HTTP 200 and tries no further payload once
\* one has yielded a record; so a lookup makes at most 12 requests and ends in a
\* record or in an error.
C17_NegotiationOrder ==
    last.op = "consulta_masiva_por_id" =>
        /\ Len(last.r.log) <= Len(ShapeNames) * Len(VariantNames)
        /\ Len(last.r.log) > 0 => (last.r.log[1].shape = 1 /\ last.r.log[1].variant = 1)
        /\ \A i \in 1..(Len(last.r.log) - 1) : NextInOrder(last.r.log[i], last.r.log[i + 1])
        /\ \A i \in 1..(Len(last.r.log) - 1) :
              last.r.log[i].shape = last.r.log[i + 1].shape =>
                  last.r.log[i].answer = "down"
        /\ last.r.ret # None => last.r.log[Len(last.r.log)].answer = "json"
        /\ last.r.ret = None => last.r.log[Len(last.r.log)].shape = Len(ShapeNames)
        /\ last.lookup.exc <=> last.r.ret = None

\* the record's own identifier: its ID field, or its IDA field when it has no
\* ID; "" when it has neither
OwnId(rec) ==
    IF "ID" \in DOMAIN rec /\ rec["ID"] # "" THEN rec["ID"]
    ELSE IF "IDA" \in DOMAIN rec THEN rec["IDA"] ELSE ""

\* the positions of the records of identifier id
Matching(recs, id) == {i \in 1..Len(recs) : OwnId(recs[i]) = ToString(id)}

Selected(recs, id, ret) ==
    /\ Matching(recs, id) # {} => ret = Some(recs[Min(Matching(recs, id))])
    /\ Matching(recs, id) = {} => ret = Some(recs[1])

\* C18: from the records extracted from the answer to a payload,
\* consulta_masiva_por_id returns the first one whose own ID/IDA field is the
\* identifier asked for, if there is one, and the first record otherwise; a
\* record of another identifier is never returned while one of the identifier
\* asked for is in the answer.
C18_OwnRecordIsPreferred ==
    (last.op = "select_record" /\ ~CodeRejects(last.data)
                               /\ Len(_iter_records(last.data)) > 0) =>
        Selected(_iter_records(last.data), last.id, last.ret)

\* the rows load_data_from_sheet looks at, and those of them with a CIC cell
FirstRows(rows) == 1..Min({HeaderWindow, Len(rows)})
CicRows(rows) == {i \in FirstRows(rows) : rows[i].cic}

\* C19: load_data_from_sheet picks the header among the first 5 rows only; when
\* one of them has a cell that, trimmed and whatever its case, is CIC, the header
\* is the first such row, even below a row with more non-empty cells; otherwise
\* it is the row with the most non-empty cells, the earliest of them on a tie.
C19_HeaderDiscovery ==
    last.op = "pick_header" =>
        /\ last.header_index \in FirstRows(last.rows)
        /\ CicRows(last.rows) # {} => last.header_index = Min(CicRows(last.rows))
        /\ CicRows(last.rows) = {} =>
              \A j \in FirstRows(last.rows) :
                  /\ last.rows[j].nonempty <= last.rows[last.header_index].nonempty
                  /\ last.rows[j].nonempty = last.rows[last.header_index].nonempty =>
                        last.header_index <= j

\* the third row is the header for its CIC cell, below a row with more non-empty
\* cells and above a sixth row with a CIC cell of its own
C19_Witness ==
    /\ last.op = "pick_header"
    /\ Len(last.rows) = HeaderWindow + 1
    /\ last.rows[1].nonempty > last.rows[3].nonempty
    /\ CicRows(last.rows) = {3}
    /\ last.rows[HeaderWindow + 1].cic
    /\ last.header_index = 3

\* the rows under the header that are not wholly empty, in grid order
Filled(body) == SelectSeq(body, LAMBDA row : ~row.blank)

\* column j is the last one of its name
LastOfName(names, j) == \A k \in (j + 1)..Len(names) : names[k] # names[j]

\* record is the record of row cells under the columns names
RecordOfRow(record, names, cells) ==
    /\ DOMAIN record.val = Range(names)
    /\ \A j \in 1..Len(names) :
          LastOfName(names, j) =>
              record.val[names[j]] = (IF j <= Len(cells) THEN strip(cells[j]) ELSE "")

SameTokens(names, query) ==
    {i \in 1..Len(names) : NameCases[names[i]].tokens = NameCases[query].tokens}

\* the match is the row at position i
MatchIsRow(abonado, i) == abonado = Some("50" \o ToString(i))

\* C21: encontrar_abonado_por_nombre returns the first record, in row order,
\* whose name cell holds the same tokens as often as the query (whatever their
\* order, case, accents and punctuation), and None when there is none; a query
\* without a token matches no row.
C21_NameMatching ==
    last.op = "encontrar_abonado_por_nombre" =>
        /\ ~last.exc
        /\ IF \/ NameHeaders[last.header].named = 0
              \/ NameCases[last.query].tokens = << >>
              \/ SameTokens(last.names, last.query) = {}
           THEN last.abonado = None
           ELSE MatchIsRow(last.abonado, Min(SameTokens(last.names, last.query)))

\* the same with the query of no token left aside
C21_TokenedNameMatching ==
    (last.op = "encontrar_abonado_por_nombre" /\ NameCases[last.query].tokens # << >>) =>
        /\ ~last.exc
        /\ IF \/ NameHeaders[last.header].named = 0
              \/ SameTokens(last.names, last.query) = {}
           THEN last.abonado = None
           ELSE MatchIsRow(last.abonado, Min(SameTokens(last.names, last.query)))

(***************************************************************************)
(* The column names of load_data_from_sheet, checked under SpecPure.       *)
(***************************************************************************)
\* the cell of a row under column j as a record holds it
CellUnder(cells, j) == IF j <= Len(cells) THEN strip(cells[j]) ELSE ""

\* C22: the column names load_data_from_sheet derives from a header row are
\* pairwise distinct: every record has as many keys as the header row has
\* cells, and holds the value of each of the row's columns under some key.
C22_ColumnNamesAreDistinct ==
    last.op = "load_data_from_sheet" =>
        \A i \in 1..Len(last.r.ret) :
            /\ Len(last.r.ret[i].keys) = Len(last.header.cells)
            /\ i <= Len(Filled(last.body)) =>
                  \A j \in 1..Len(last.header.cells) :
                      \E k \in DOMAIN last.r.ret[i].val :
                          last.r.ret[i].val[k] = CellUnder(Filled(last.body)[i].cells, j)

\* the same for the header rows in which no name ends like a generated one
C22_PlainNamesAreDistinct ==
    (last.op = "load_data_from_sheet" /\ last.header.cells # <<"CIC", "CIC", "CIC_2">>) =>
        \A i \in 1..Len(last.r.ret) : Len(last.r.ret[i].keys) = Len(last.header.cells)

(***************************************************************************)
(* The lifetime of cache entries, checked under SpecCache: every value     *)
(* stored tells the time of its set.                                       *)
(***************************************************************************)
\* every entry of the record cache was there before, with the same timestamp
StampsKept(before, after) ==
    \A i \in 1..Len(after) :
        \E j \in 1..Len(before) : before[j].key = after[i].key /\ before[j].ts = after[i].ts

\* every slot of the sheet cache was there before, with the same timestamp
SlotStampsKept(before, after) ==
    \A slot \in DOMAIN after : slot \in DOMAIN before /\ before[slot].ts = after[slot].ts

\* C23: a get of either cache changes no entry's timestamp (a hit of the
\* record cache only moves the entry to the end of the order), and the value
\* a get returns was stored by a set of that key no more than the TTL earlier,
\* however often the key was read in between.
C23_ReadsDoNotExtendLifetime ==
    [][/\ last'.op = "ph_get" =>
            /\ StampsKept(_CACHE, _CACHE')
            /\ last'.ret # None =>
                  /\ last'.ret[1].ID = last'.key
                  /\ last'.ret[1].stored <= now'
                  /\ now' - last'.ret[1].stored <= CACHE_TTL'
                  /\ _CACHE'[Len(_CACHE')].key = last'.key
       /\ last'.op = "tv_get" =>
            /\ SlotStampsKept(_sheet_cache, _sheet_cache')
            /\ last'.ret # None =>
                  /\ last'.ret[1].value = SlotValue(last'.key)
                  /\ last'.ret[1].stored <= now'
                  /\ now' - last'.ret[1].stored <= SHEET_CACHE_TTL']_vars

\* a get hit has moved to the end an entry that is older than one before it,
\* and returned its value at the very age of the TTL
C23_Witness ==
    /\ last.op = "ph_get"
    /\ last.ret # None
    /\ now - last.ret[1].stored = CACHE_TTL
    /\ \E i \in 1..(Len(_CACHE) - 1) : _CACHE[i].ts > _CACHE[Len(_CACHE)].ts
    /\ _CACHE[Len(_CACHE)].ts = last.ret[1].stored

(***************************************************************************)
(* Failed writes, checked under Spec.                                      *)
(***************************************************************************)
\* C24: when marcar_registro_sheet fails (no row found, or an upstream error
\* at a cell update or at the formatting), either the worksheet is as it was
\* or the sheet cache has been emptied: the cache never keeps a grid read
\* before the failed call changed the worksheet.
C24_FailedWriteStaysCoherent ==
    [][(last'.op = "marcar_registro" /\ last'.status = 500) =>
          (sheet' = sheet \/ _sheet_cache' = EmptyDict)]_vars

\* a write that fails before its first cell update changes nothing
C24_UnfoundRowWritesNothing ==
    [][(last'.op = "marcar_registro" /\ last'.status = 500 /\ last'.row = 0) =>
          (sheet' = sheet /\ _sheet_cache' = _sheet_cache)]_vars

====
